---- MODULE Spec2Model ----
(***************************************************************************)
(* A model of the extraction engine of feed-xml-mx:                        *)
(* OptimizedProductScraper (src/scraper_optimized.py) with the error       *)
(* handling it is wrapped in (src/error_handling.py) and the record and    *)
(* configuration types of src/models.py.                                   *)
(*                                                                         *)
(* One batch run (scrape_multiple_products) is a set of asyncio tasks, one *)
(* per job, started chunk by chunk.  A task is cut at its suspension       *)
(* points: waiting for the semaphore, waiting for the throttler, one fetch *)
(* attempt in flight, and the backoff sleep.  The program reads two clocks: *)
(* the event loop's monotonic clock (asyncio.sleep, the throttler), of      *)
(* which the program only uses differences, so the model keeps the time    *)
(* left of each sleep and the age of each admission, and a second passing  *)
(* changes them all; and the wall clock (datetime.now(), the cache         *)
(* entries), which the model advances in steps of the cache's time to      *)
(* live.                                                                   *)
(***************************************************************************)
EXTENDS Integers, Sequences, FiniteSets, TLC

(***************************************************************************)
(* Bounds of the model.                                                    *)
(***************************************************************************)
\* longest job list handed to one batch run
MaxJobs == 3
\* the wall clock is followed up to a second after this many times ttl_seconds
MaxWallSteps == 1
\* batch runs made on one scraper instance
MaxRuns == 3
\* the most slots a scraper is configured with, in SpecSlots
MaxSlots == 2
\* longest list of img elements built freely from ImgPool
MaxImgs == 2
\* most price tokens matched in a page text
MaxTokens == 3
\* longest job list built freely from JobPool in SpecFair
MaxFairJobs == 2
\* most thumbnails put in front of a list of distinct product images
MaxLeading == 21
\* most distinct product images in such a list
MaxTrailing == 11

(***************************************************************************)
(* Program constants.                                                      *)
(***************************************************************************)
\* ScrapingConfig.max_concurrent_requests is at least this (ge=1)
MinConcurrent == 1
\* and at most this (le=10)
MaxConcurrent == 10
\* ScrapingConfig.retry_attempts (default)
retry_attempts == 2
\* ScrapingConfig.delay_between_requests, seconds (default 1.0)
delay_between_requests == 1
\* CacheEntry(result, ttl_seconds=3600)
ttl_seconds == 3600
\* Throttler(rate_limit=..., period=1.0)
period == 1
\* batch_size = min(max_concurrent_requests * 2, 20)
BatchSizeFactor == 2
BatchSizeCap == 20

\* _extract_price_info_sync keeps the prices p with 100 <= p <= 10000
MinPrice == 100

MaxPrice == 10000

\* _perform_scrape raises NetworkError for a response status >= 400
MinErrorStatus == 400

\* _extract_stock_info_sync accepts a phrase match n with 1 <= n <= 1000
MinStock == 1

MaxStock == 1000

\* a description is taken when it is longer than MinDescription characters and
\* a record accepts one of at most MaxDescription characters
MinDescription == 10

MaxDescription == 5000

\* _extract_images_sync looks at the first ImgElementsLimit img elements and
\* stops at ImagesLimit images
ImgElementsLimit == 20

ImagesLimit == 10

(***************************************************************************)
(* Inputs: jobs are (product_url, product_id) tuples.  Identifiers are     *)
(* digit strings, as ScrapedProductData.product_id requires (^\d+$).       *)
(***************************************************************************)
PoolList == <<<<"A", "1">>, <<"A", "2">>, <<"B", "1">>>>

JobPool == {PoolList[i] : i \in 1..Len(PoolList)}

JobLists == UNION {[1..n -> JobPool] : n \in 1..MaxJobs}

\* the job lists of one job
SingleJobLists == {<<job>> : job \in JobPool}

\* job lists for one locator: a list of one job, and one of two jobs
SameUrlJobLists == {<<PoolList[1]>>, <<PoolList[2], PoolList[1]>>}

\* job lists in which one job occurs twice: next to itself, and with another
\* job between the two, which puts the second in the next chunk
SameKeyJobLists ==
    {<<PoolList[1], PoolList[1]>>, <<PoolList[1], PoolList[2], PoolList[1]>>}

\* a job list one job longer than the largest chunk, all for one locator
LongList == [i \in 1..(BatchSizeCap + 1) |-> PoolList[1]]

\* every job list of up to MaxFairJobs jobs, and two lists of two chunks: the
\* last job is new to the scraper, or it is the first job again
FairJobLists ==
    UNION {[1..n -> JobPool] : n \in 1..MaxFairJobs}
        \cup {PoolList, <<PoolList[1], PoolList[2], PoolList[1]>>}

\* job lists of one job, and of two jobs for two locators
BrowserJobLists == {<<PoolList[1]>>, <<PoolList[1], PoolList[3]>>}

\* what one call of _perform_scrape can end in
Outcomes == {"ok", "http_error", "timeout", "not_found", "validation"}

VARIABLES
    max_concurrent_requests,  \* self.config.max_concurrent_requests
    wall,         \* datetime.now(), in seconds
    cache,        \* self.cache: cache_key -> CacheEntry
    failed_urls,  \* self.failed_urls
    stats,        \* self.stats
    sem,          \* self._semaphore._value: free slots
    task_logs,    \* self.throttler._task_logs: for each admission kept, now - t
    phase,        \* where scrape_multiple_products is
    jobs,         \* product_urls of the running (or last) batch
    chunk,        \* i of the chunk loop, 0-based offset of the chunk
    results,      \* results dict of the running (or last) batch
    task,         \* per job: the state of its scrape_product_page task
    batches,      \* batch runs started so far
    cleanup_log,  \* what the last "Cache cleanup completed" log record says
    call,         \* the call of a function that is followed on its own: its
                  \* arguments, how far it is and what it returns
    browser,      \* self.browser: None, or the n-th Browser launched
    context,      \* self.context: None, or the context of the n-th Browser
    launched,     \* the Browsers launched so far
    closed,       \* the Browsers and contexts that have been closed
    session       \* per job: where its latest call of _perform_scrape is
                  \* in _browser_session, and what it holds

vars == <<max_concurrent_requests, wall, cache, failed_urls, stats, sem, task_logs, phase, jobs, chunk,
          results, task, batches, cleanup_log, call, browser, context, launched, closed, session>>

(***************************************************************************)
(* Values.                                                                 *)
(***************************************************************************)
\* the ScrapedProductData built for product_id (only product_id is modelled)
ScrapedProductData(product_id) == [kind |-> "record", product_id |-> product_id]

\* Python's None, as a task result
None == [kind |-> "none", product_id |-> ""]

\* an exception object, as a task result handed back by gather
ExceptionResult == [kind |-> "exception", product_id |-> ""]

\* no result yet
Pending == [kind |-> "pending", product_id |-> ""]

\* None, for a price (a price that is present is a PositiveFloat)
NoPrice == 0

\* the prices a page's text may show, in MXN
PagePrices == {MinPrice - 1, MinPrice, MaxPrice, MaxPrice + 1}

\* the largest and the second largest element of a set of prices
Largest(prices) == CHOOSE p \in prices : \A q \in prices : q <= p

SecondLargest(prices) == Largest(prices \ {Largest(prices)})

\* Python's round() of 100 * num / den: to the nearest integer, a half to the
\* even one
RoundPercent(num, den) ==
    LET floor == (100 * num) \div den
        twice == 2 * ((100 * num) % den)
    IN  IF twice > den \/ (twice = den /\ floor % 2 = 1) THEN floor + 1 ELSE floor

\* the prices a page's text may show when more than two are within the range
PriceTokens == PagePrices \cup {MinPrice + 150, MinPrice + 400}

\* the lists of prices price_pattern.findall may return, in document order
PriceMatches == UNION {[1..n -> PriceTokens] : n \in 0..MaxTokens}

\* set(valid_prices) before the range is looked at
TokenSet(price_matches) == {price_matches[i] : i \in 1..Len(price_matches)}

\* faulty variant: the sale price is the smallest price within the range
extract_price_info_sync_Smallest(page_prices) ==
    LET unique_prices == {p \in page_prices : MinPrice <= p /\ p <= MaxPrice}
        smallest == CHOOSE p \in unique_prices : \A q \in unique_prices : p <= q
        largest == CHOOSE p \in unique_prices : \A q \in unique_prices : q <= p
    IN  IF Cardinality(unique_prices) >= 2
        THEN [original_price |-> largest, sale_price |-> smallest,
              discount_percentage |-> 0]
        ELSE IF Cardinality(unique_prices) = 1
             THEN [original_price |-> NoPrice, sale_price |-> largest,
                   discount_percentage |-> NoPrice]
             ELSE [original_price |-> NoPrice, sale_price |-> NoPrice,
                   discount_percentage |-> NoPrice]

\* _extract_price_info_sync, of the set of prices matched in the page text
extract_price_info_sync(page_prices) ==
    LET unique_prices == {p \in page_prices : MinPrice <= p /\ p <= MaxPrice}
    IN  IF Cardinality(unique_prices) >= 2
        THEN [original_price |-> Largest(unique_prices),
              sale_price |-> SecondLargest(unique_prices),
              discount_percentage |->
                  RoundPercent(Largest(unique_prices) - SecondLargest(unique_prices),
                               Largest(unique_prices))]
        ELSE IF Cardinality(unique_prices) = 1
             THEN [original_price |-> NoPrice, sale_price |-> Largest(unique_prices),
                   discount_percentage |-> NoPrice]
             ELSE [original_price |-> NoPrice, sale_price |-> NoPrice,
                   discount_percentage |-> NoPrice]

\* the arguments ScrapedProductData is called with in _extract_product_data
PricedProductData(product_id, price_info) ==
    [kind |-> "record", product_id |-> product_id,
     original_price |-> price_info.original_price,
     sale_price |-> price_info.sale_price,
     discount_percentage |-> price_info.discount_percentage]

\* faulty variant: the validator accepts any pair of prices
validate_pricing_consistency_Any(record) == TRUE

\* validate_pricing_consistency does not raise
validate_pricing_consistency(record) ==
    (record.original_price # NoPrice /\ record.sale_price # NoPrice) =>
        ~(record.sale_price > record.original_price)

\* the construction of the record raises no ValidationError: a price is None
\* or positive, discount_percentage is None or within 0..100, and the model
\* validator does not raise
Validates(record) ==
    /\ record.original_price >= 0
    /\ record.sale_price >= 0
    /\ record.discount_percentage \in 0..100
    /\ validate_pricing_consistency(record)

\* the record as validate_pricing_consistency returns it
Validated(record) ==
    IF /\ record.original_price # NoPrice
       /\ record.sale_price # NoPrice
       /\ record.discount_percentage = 0
    THEN [record EXCEPT !.discount_percentage =
              RoundPercent(record.original_price - record.sale_price, record.original_price)]
    ELSE record

\* the prices of test_price_calculation, 739.50 and 628.58, in centavos
TestOriginalPrice == 73950

TestSalePrice == 62858

\* a discount_percentage given to the constructor
GivenDiscount == 20

\* the keyword arguments a record is constructed with: each price given or not,
\* the discount_percentage given or not
ConstructorArgs ==
    {PricedProductData("123", [original_price |-> o, sale_price |-> s,
                               discount_percentage |-> d]) :
        o \in {NoPrice, TestSalePrice, TestOriginalPrice},
        s \in {NoPrice, TestSalePrice, TestOriginalPrice},
        d \in {NoPrice, GivenDiscount}}

\* what the construction of a models.ScrapedProductData raises when the
\* arguments do not validate
ValidationError == [kind |-> "ValidationError"]

\* models.ScrapedProductData(**args): the validated record, or ValidationError
ValidatedProductData(args) ==
    IF Validates(args) THEN Validated(args) ELSE ValidationError

\* product_scraper.ScrapedProductData(**args): the dataclass keeps the prices
\* and the discount_percentage it is given; __post_init__ fills in the lists
\* and last_updated only
post_init(args) ==
    [kind |-> "record", product_id |-> args.product_id,
     original_price |-> args.original_price,
     sale_price |-> args.sale_price,
     discount_percentage |-> args.discount_percentage]

\* a price text of a feed: an optional '$', the digits before the point, the
\* digits after it (none: no point either), the white space before the
\* currency code, and the code
PriceText(prefix, whole, fraction, gap, currency) ==
    [prefix |-> prefix, whole |-> whole, fraction |-> fraction, gap |-> gap,
     currency |-> currency]

\* the price texts format_price is tried on: '628.58 MXN' of
\* test_price_formatting among them
PriceTexts ==
    {PriceText(prefix, whole, fraction, gap, currency) :
        prefix \in {"", "$"}, whole \in {0, 9, 628},
        fraction \in {<<>>, <<5>>, <<5, 8>>, <<0, 0>>},
        gap \in {"", " "}, currency \in {"MXN", "USD"}}

\* the platforms format_price is called with
Platforms == {"google", "facebook", "both"}

RECURSIVE DigitsText(_)
\* the digits as a string
DigitsText(digits) ==
    IF digits = <<>> THEN "" ELSE ToString(Head(digits)) \o DigitsText(Tail(digits))

\* the price text as the string it is
Render(price) ==
    price.prefix \o ToString(price.whole)
        \o (IF price.fraction = <<>> THEN "" ELSE "." \o DigitsText(price.fraction))
        \o price.gap \o price.currency

\* re.match(r'(\d+\.?\d*)\s*MXN', price) matches
PriceMatch(price) == price.prefix = "" /\ price.currency = "MXN"

\* f"{price_value:.2f}" of a number with at most two digits after the point
TwoDecimals(price) ==
    ToString(price.whole) \o "."
        \o DigitsText(SubSeq(price.fraction \o <<0, 0>>, 1, 2))

\* format_price: both branches of the platform test return the same form
format_price(price, platform) ==
    IF PriceMatch(price)
    THEN IF platform = "facebook"
         THEN TwoDecimals(price) \o " MXN"
         ELSE TwoDecimals(price) \o " MXN"
    ELSE Render(price)

\* an optional value: None, or the value v
Absent == [present |-> FALSE, value |-> 0]

Present(v) == [present |-> TRUE, value |-> v]

\* the numbers a page may show as stock, around the ends of the accepted range
StockNumbers == {MinStock - 1, MinStock, MaxStock, MaxStock + 1}

\* the stock patterns of _extract_stock_info_sync, in the order they are tried:
\* 'disponibles: n', 'n disponibles', 'stock: n'
StockPatterns == 1..3

\* what a page holds of stock: the max attribute of its input.js-quantity (an
\* integer, possibly negative), if any, and for each stock pattern the number
\* of its first match in the page text, if any
StockPages ==
    [quantity_max : {Absent} \cup {Present(n) : n \in StockNumbers \cup {-1}},
     matches : [StockPatterns -> {Absent} \cup {Present(n) : n \in StockNumbers}]]

\* the patterns that match with a number within the accepted range
AcceptedMatches(page) ==
    {i \in StockPatterns :
        /\ page.matches[i].present
        /\ MinStock <= page.matches[i].value
        /\ page.matches[i].value <= MaxStock}

\* faulty variant: a phrase match is returned whatever its number
extract_stock_info_sync_NoBound(page) ==
    IF page.quantity_max.present
    THEN page.quantity_max
    ELSE IF \E i \in StockPatterns : page.matches[i].present
         THEN page.matches[CHOOSE i \in StockPatterns :
                              /\ page.matches[i].present
                              /\ \A k \in StockPatterns : page.matches[k].present => i <= k]
         ELSE Absent

\* _extract_stock_info_sync
extract_stock_info_sync(page) ==
    IF page.quantity_max.present
    THEN page.quantity_max
    ELSE IF AcceptedMatches(page) # {}
         THEN page.matches[CHOOSE i \in AcceptedMatches(page) :
                              \A k \in AcceptedMatches(page) : i <= k]
         ELSE Absent

\* the lengths a description text may have, in characters
DescriptionLengths == {MinDescription, MinDescription + 1, MaxDescription, MaxDescription + 1}

\* what a page holds of description: the length of the stripped descripcionLarga
\* of its dataProd script, if any, and of the text of its #description div, if
\* any
DescriptionPages ==
    [script : {Absent} \cup {Present(n) : n \in DescriptionLengths},
     div : {Absent} \cup {Present(n) : n \in DescriptionLengths}]

\* _extract_description_sync (a description is modelled by its length)
extract_description_sync(page) ==
    IF page.script.present /\ page.script.value > MinDescription
    THEN page.script
    ELSE IF page.div.present /\ page.div.value > MinDescription
         THEN page.div
         ELSE Absent

\* the src of an img element: its form ('https://host/path', '//host/path',
\* '/path' or 'path'), host (none in the last two forms) and path, and what the
\* path names (a product image, or a thumbnail, icon or logo: 'thumb', 'icon'
\* or 'logo' is part of the path)
Src(form, host, path, asset) == [form |-> form, host |-> host, path |-> path, asset |-> asset]

\* the host of the shop, which urljoin puts in front of a '/path'
base_host == "tienda.accu-chek.com.mx"

\* the src values lists are built from: one product image in every form and on
\* both hosts, and the three kinds of non-product asset
ImgPool ==
    {Src("absolute", "cdn.gdar.com.mx", 1, "product"),
     Src("protocol_relative", "cdn.gdar.com.mx", 1, "product"),
     Src("absolute", base_host, 1, "product"),
     Src("root_relative", "", 1, "product"),
     Src("relative", "", 1, "product"),
     Src("absolute", "cdn.gdar.com.mx", 2, "thumb"),
     Src("absolute", "cdn.gdar.com.mx", 3, "icon"),
     Src("root_relative", "", 4, "logo")}

\* n img elements that show the same thumbnail
Thumbs(n) == [i \in 1..n |-> Src("absolute", "cdn.gdar.com.mx", 2, "thumb")]

\* n img elements that show n product images
Products(n) == [i \in 1..n |-> Src("absolute", "cdn.gdar.com.mx", 10 + i, "product")]

\* the lists of img elements (those whose src matches the product pattern, in
\* document order) a page may hold
ImgLists ==
    UNION {[1..n -> ImgPool] : n \in 0..MaxImgs}
        \cup {Thumbs(t) \o Products(n) : t \in 0..MaxLeading, n \in 0..MaxTrailing}

\* src after 'Convert to absolute URL if needed'
ToAbsolute(src) ==
    IF src.form = "protocol_relative" THEN [src EXCEPT !.form = "absolute"]
    ELSE IF src.form = "root_relative" THEN [src EXCEPT !.form = "absolute", !.host = base_host]
    ELSE src

\* src.startswith('http') and 'thumb' not in src.lower()
Accepted(src) == src.form = "absolute" /\ src.asset # "thumb"

\* the loop of _extract_images_sync over img_elements from element i on, with
\* the images and the seen_images it has so far
RECURSIVE ImagesFrom(_, _, _, _)
ImagesFrom(img_elements, i, images, seen_images) ==
    IF i > Len(img_elements) \/ i > ImgElementsLimit
    THEN images
    ELSE LET raw == img_elements[i]
             src == ToAbsolute(raw)
         IN  IF raw \in seen_images
             THEN ImagesFrom(img_elements, i + 1, images, seen_images)
             ELSE IF Accepted(src)
                  THEN IF Len(images) + 1 >= ImagesLimit
                       THEN Append(images, src)
                       ELSE ImagesFrom(img_elements, i + 1, Append(images, src),
                                       seen_images \cup {src})
                  ELSE ImagesFrom(img_elements, i + 1, images, seen_images)

\* _extract_images_sync
extract_images_sync(img_elements) == ImagesFrom(img_elements, 1, <<>>, {})

ScrapingStats == [total_requests |-> 0, successful_requests |-> 0,
                  failed_requests |-> 0, cache_hits |-> 0, cache_misses |-> 0]

CacheEntry(data, ttl) == [data |-> data, created_at |-> wall, expires_at |-> wall + ttl]

\* faulty variant: an entry never expires
is_expired_Never(entry) == FALSE

is_expired(entry) == wall > entry.expires_at

\* faulty variant: the key is the identifier alone
cache_key_ById(product_id, product_url) == product_id

\* faulty variant: the key leaves the identifier out
cache_key_ByUrl(product_id, product_url) == product_url

cache_key(product_id, product_url) == product_id \o ":" \o product_url

Url(j) == jobs[j][1]

Id(j) == jobs[j][2]

Key(j) == cache_key(Id(j), Url(j))

(***************************************************************************)
(* error_handling.py: which exceptions are trusted, and what ErrorContext  *)
(* and handle_async_errors do with them.                                   *)
(***************************************************************************)
\* the exception one failed _perform_scrape raises
ExceptionOf(outcome) ==
    CASE outcome = "http_error" -> "NetworkError"
      [] outcome = "not_found"  -> "ScrapingError"
      [] outcome = "validation" -> "ValidationError"
      [] outcome = "timeout"    -> "PlaywrightTimeoutError"
      [] outcome = "closed"     -> "PlaywrightError"
      [] outcome = "not_initialized" -> "ScrapingError"

FeedXMLErrors == {"FeedXMLError", "ScrapingError", "NetworkError"}

\* is_operational defaults to True and neither ScrapingError nor NetworkError changes it
is_operational(error) == error \in FeedXMLErrors

\* pydantic's ValidationError is a ValueError; playwright's TimeoutError is not
\* the builtin TimeoutError
trusted_error_types == {"ConnectionError", "TimeoutError", "ValueError", "ValidationError"}

is_trusted_error(error) ==
    IF error \in FeedXMLErrors THEN is_operational(error)
    ELSE error \in trusted_error_types

\* ErrorContext(context) is built with the default reraise = True
reraise == TRUE

\* ErrorContext.__aexit__: TRUE (suppress the exception) unless reraise and the
\* error is not trusted
ErrorContextSuppresses(error) == ~(reraise /\ ~is_trusted_error(error))

\* handle_async_errors: the wrapper swallows a trusted error (and returns None)
WrapperResult(error) == IF is_trusted_error(error) THEN None ELSE ExceptionResult

(***************************************************************************)
(* Helpers.                                                                *)
(***************************************************************************)
RECURSIVE Pow2(_)
Pow2(n) == IF n = 0 THEN 1 ELSE 2 * Pow2(n - 1)

Min(a, b) == IF a <= b THEN a ELSE b

\* batch_size = min(self.config.max_concurrent_requests * 2, 20)
batch_size == Min(max_concurrent_requests * BatchSizeFactor, BatchSizeCap)

\* faulty variant: the slice is tasks[i:], every job that is left
InChunk_Rest(j) == j \in 1..Len(jobs) /\ chunk < j

\* the jobs of tasks[i:i + batch_size]
InChunk(j) == j \in 1..Len(jobs) /\ chunk < j /\ j <= chunk + batch_size

\* faulty variant: range(self.config.retry_attempts), one attempt short
attempts_NoExtra == retry_attempts

\* for attempt in range(self.config.retry_attempts + 1)
attempts == retry_attempts + 1

\* the delay slept after failed attempt number attempt (0-based)
BackoffDelay(attempt) == delay_between_requests * Pow2(attempt)

\* faulty variant: the cache is never consulted
CacheHit_Never(j) == FALSE

\* the cache check that opens scrape_product_page
CacheHit(j) == Key(j) \in DOMAIN cache /\ ~is_expired(cache[Key(j)])

\* a task whose coroutine has been created and not yet started
\* pc, attempt, last_error: the task's position and locals;
\* sleep: the seconds left of its asyncio.sleep;
\* result, how: what it returned and by which path;
\* calls: the calls of _perform_scrape it has made;
\* last_outcome: while the retry loop runs, how the latest call ended
NewTask == [pc |-> "new", attempt |-> 0, last_error |-> FALSE, sleep |-> 0,
            result |-> Pending, how |-> "", calls |-> 0, last_outcome |-> "none"]

\* the task has returned: the locals of its retry loop are gone
Return(t, how, result) ==
    [t EXCEPT !.pc = "done", !.how = how, !.result = result, !.attempt = 0,
              !.last_error = FALSE, !.sleep = 0, !.last_outcome = "none"]

\* Throttler.flush: drop the admissions older than the period
Flush(logs) == SelectSeq(logs, LAMBDA age : ~(age > period))

(***************************************************************************)
(* Init: the scraper as constructed, no batch run yet.                     *)
(***************************************************************************)
\* self.browser = None, self.context = None
NoBrowser == 0

\* the n-th Browser launched, and the context made from it
BrowserObject(n) == <<"browser", n>>

ContextObject(n) == <<"context", n>>

\* OptimizedProductScraper(config) with config.max_concurrent_requests = slots
Scraper(slots) ==
    /\ max_concurrent_requests = slots
    /\ wall = 0
    /\ cache = <<>>
    /\ failed_urls = {}
    /\ stats = ScrapingStats
    /\ sem = max_concurrent_requests
    /\ task_logs = <<>>
    /\ phase = "idle"
    /\ jobs = <<>>
    /\ chunk = 0
    /\ results = <<>>
    /\ task = <<>>
    /\ batches = 0
    /\ cleanup_log = None
    /\ browser = NoBrowser
    /\ context = NoBrowser
    /\ launched = 0
    /\ closed = {}
    /\ session = <<>>

\* no function is followed on its own
NoCall == [fn |-> "", done |-> TRUE]

Constructed(slots) == Scraper(slots) /\ call = NoCall

\* a scraper configured with the fewest slots: the two jobs of a chunk contend
\* for the one slot
Init == Constructed(MinConcurrent)

\* a scraper configured with any number of slots up to MaxSlots
InitSlots == \E slots \in MinConcurrent..MaxSlots : Constructed(slots)

\* a scraper configured with the fewest or with the most slots
InitChunks == \E slots \in {MinConcurrent, MaxConcurrent} : Constructed(slots)

(***************************************************************************)
(* scrape_multiple_products                                                *)
(***************************************************************************)
\* faulty variant: total_requests counts the distinct jobs of the list
StartBatch_CountsDistinct(product_urls) ==
    /\ phase \in {"idle", "returned"}
    /\ batches < MaxRuns
    /\ batches' = batches + 1
    /\ stats' = [ScrapingStats EXCEPT !.total_requests =
                    Cardinality({product_urls[i] : i \in 1..Len(product_urls)})]
    /\ jobs' = product_urls
    /\ task' = [j \in 1..Len(product_urls) |-> NewTask]
    /\ results' = <<>>
    /\ chunk' = 0
    /\ phase' = "loop"
    /\ UNCHANGED <<max_concurrent_requests, browser, context, launched, closed, session, call, cleanup_log, wall, cache, failed_urls, sem, task_logs>>

\* faulty variant: a batch run starts with an empty blacklist
StartBatch_ClearsBlacklist(product_urls) ==
    /\ phase \in {"idle", "returned"}
    /\ batches < MaxRuns
    /\ batches' = batches + 1
    /\ stats' = [ScrapingStats EXCEPT !.total_requests = Len(product_urls)]
    /\ jobs' = product_urls
    /\ task' = [j \in 1..Len(product_urls) |-> NewTask]
    /\ results' = <<>>
    /\ chunk' = 0
    /\ phase' = "loop"
    /\ failed_urls' = {}
    /\ UNCHANGED <<max_concurrent_requests, browser, context, launched, closed, session, call, cleanup_log, wall, cache, sem, task_logs>>

\* faulty variant: the counters of the earlier run are kept, only total_requests
\* is set
StartBatch_KeepsCounters(product_urls) ==
    /\ phase \in {"idle", "returned"}
    /\ batches < MaxRuns
    /\ batches' = batches + 1
    /\ stats' = [stats EXCEPT !.total_requests = Len(product_urls)]
    /\ jobs' = product_urls
    /\ task' = [j \in 1..Len(product_urls) |-> NewTask]
    /\ results' = <<>>
    /\ chunk' = 0
    /\ phase' = "loop"
    /\ UNCHANGED <<max_concurrent_requests, browser, context, launched, closed, session, call, cleanup_log, wall, cache, failed_urls, sem, task_logs>>

\* the call: reset the statistics, create one coroutine per job
StartBatch(product_urls) ==
    /\ phase \in {"idle", "returned"}
    /\ batches < MaxRuns
    /\ batches' = batches + 1
    /\ stats' = [ScrapingStats EXCEPT !.total_requests = Len(product_urls)]
    /\ jobs' = product_urls
    /\ task' = [j \in 1..Len(product_urls) |-> NewTask]
    /\ results' = <<>>
    /\ chunk' = 0
    /\ phase' = "loop"
    /\ UNCHANGED <<max_concurrent_requests, browser, context, launched, closed, session, call, cleanup_log, wall, cache, failed_urls, sem, task_logs>>

\* the first batch run of a scraper
FirstBatch(product_urls) == batches = 0 /\ StartBatch(product_urls)

\* faulty variant: the blacklist check is missing
FirstStep_NoBlacklist(j) ==
    IF CacheHit(j)
    THEN Return(task[j], "hit", cache[Key(j)].data)
    ELSE [task[j] EXCEPT !.pc = "wait_sem"]

\* what the first step of job j's task does: scrape_product_page up to the
\* semaphore (cache check, blacklist check)
FirstStep(j) ==
    IF CacheHit(j)
    THEN Return(task[j], "hit", cache[Key(j)].data)
    ELSE IF Url(j) \in failed_urls
         THEN Return(task[j], "skipped", None)
         ELSE [task[j] EXCEPT !.pc = "wait_sem"]

\* faulty variant: the miss is counted after the blacklist check, not before
StartChunk_MissAfterBlacklist ==
    /\ phase = "loop"
    /\ chunk < Len(jobs)
    /\ task' = [j \in 1..Len(jobs) |-> IF InChunk(j) THEN FirstStep(j) ELSE task[j]]
    /\ stats' = [stats EXCEPT
          !.cache_hits = @ + Cardinality({j \in 1..Len(jobs) : InChunk(j) /\ CacheHit(j)}),
          !.cache_misses = @ + Cardinality({j \in 1..Len(jobs) :
                                  InChunk(j) /\ ~CacheHit(j) /\ Url(j) \notin failed_urls})]
    /\ phase' = "gather"
    /\ UNCHANGED <<max_concurrent_requests, browser, context, launched, closed, session, call, cleanup_log, wall, cache, failed_urls, sem, task_logs, jobs, chunk, results, batches>>

\* faulty variant: a job skipped for its blacklisted locator is counted as failed
StartChunk_CountsSkipped ==
    /\ phase = "loop"
    /\ chunk < Len(jobs)
    /\ task' = [j \in 1..Len(jobs) |-> IF InChunk(j) THEN FirstStep(j) ELSE task[j]]
    /\ stats' = [stats EXCEPT
          !.cache_hits = @ + Cardinality({j \in 1..Len(jobs) : InChunk(j) /\ CacheHit(j)}),
          !.cache_misses = @ + Cardinality({j \in 1..Len(jobs) : InChunk(j) /\ ~CacheHit(j)}),
          !.failed_requests = @ + Cardinality({j \in 1..Len(jobs) :
                                   InChunk(j) /\ ~CacheHit(j) /\ Url(j) \in failed_urls})]
    /\ phase' = "gather"
    /\ UNCHANGED <<max_concurrent_requests, browser, context, launched, closed, session, call, cleanup_log, wall, cache, failed_urls, sem, task_logs, jobs, chunk, results, batches>>

\* faulty variant: a lookup that finds an expired entry deletes it
StartChunk_EvictsExpired ==
    /\ phase = "loop"
    /\ chunk < Len(jobs)
    /\ task' = [j \in 1..Len(jobs) |-> IF InChunk(j) THEN FirstStep(j) ELSE task[j]]
    /\ stats' = [stats EXCEPT
          !.cache_hits = @ + Cardinality({j \in 1..Len(jobs) : InChunk(j) /\ CacheHit(j)}),
          !.cache_misses = @ + Cardinality({j \in 1..Len(jobs) : InChunk(j) /\ ~CacheHit(j)})]
    /\ phase' = "gather"
    /\ cache' = [key \in DOMAIN cache \ {Key(j) : j \in {k \in 1..Len(jobs) :
                                                    InChunk(k) /\ ~CacheHit(k)}} |-> cache[key]]
    /\ UNCHANGED <<max_concurrent_requests, browser, context, launched, closed, session, call, cleanup_log, wall, failed_urls, sem, task_logs, jobs, chunk, results, batches>>

\* asyncio.gather(*batch): the tasks of the chunk are created and each runs its
\* first step, in order, before any of them is resumed
StartChunk ==
    /\ phase = "loop"
    /\ chunk < Len(jobs)
    /\ task' = [j \in 1..Len(jobs) |-> IF InChunk(j) THEN FirstStep(j) ELSE task[j]]
    /\ stats' = [stats EXCEPT
          !.cache_hits = @ + Cardinality({j \in 1..Len(jobs) : InChunk(j) /\ CacheHit(j)}),
          !.cache_misses = @ + Cardinality({j \in 1..Len(jobs) : InChunk(j) /\ ~CacheHit(j)})]
    /\ phase' = "gather"
    /\ UNCHANGED <<max_concurrent_requests, browser, context, launched, closed, session, call, cleanup_log, wall, cache, failed_urls, sem, task_logs, jobs, chunk, results, batches>>

\* faulty variant: the task enters without waiting for a free slot
AcquireSemaphore_NoWait(j) ==
    /\ phase = "gather"
    /\ InChunk(j)
    /\ task[j].pc = "wait_sem"
    /\ sem' = sem - 1
    /\ task' = [task EXCEPT ![j].pc = "wait_throttle"]
    /\ UNCHANGED <<max_concurrent_requests, browser, context, launched, closed, session, call, cleanup_log, wall, cache, failed_urls, stats, task_logs, phase, jobs, chunk, results, batches>>

\* async with self._semaphore
AcquireSemaphore(j) ==
    /\ phase = "gather"
    /\ InChunk(j)
    /\ task[j].pc = "wait_sem"
    /\ sem > 0
    /\ sem' = sem - 1
    /\ task' = [task EXCEPT ![j].pc = "wait_throttle"]
    /\ UNCHANGED <<max_concurrent_requests, browser, context, launched, closed, session, call, cleanup_log, wall, cache, failed_urls, stats, task_logs, phase, jobs, chunk, results, batches>>

\* faulty variant: the throttler admits without looking at its window
AcquireThrottler_NoLimit(j) ==
    /\ phase = "gather"
    /\ InChunk(j)
    /\ task[j].pc = "wait_throttle"
    /\ task_logs' = Append(Flush(task_logs), 0)
    /\ task' = [task EXCEPT ![j].pc = "fetching", ![j].attempt = 0, ![j].calls = 1]
    /\ UNCHANGED <<max_concurrent_requests, browser, context, launched, closed, session, call, cleanup_log, wall, cache, failed_urls, stats, sem, phase, jobs, chunk, results, batches>>

\* async with self.throttler, then the first attempt of _scrape_with_retries starts
AcquireThrottler(j) ==
    /\ phase = "gather"
    /\ InChunk(j)
    /\ task[j].pc = "wait_throttle"
    /\ Len(Flush(task_logs)) < max_concurrent_requests
    /\ task_logs' = Append(Flush(task_logs), 0)
    /\ task' = [task EXCEPT ![j].pc = "fetching", ![j].attempt = 0, ![j].calls = 1]
    /\ UNCHANGED <<max_concurrent_requests, browser, context, launched, closed, session, call, cleanup_log, wall, cache, failed_urls, stats, sem, phase, jobs, chunk, results, batches>>

\* faulty variant: the locator is not added to failed_urls
Terminal_NoBlacklist(j, t) ==
    /\ stats' = [stats EXCEPT !.failed_requests = @ + 1]
    /\ sem' = sem + 1
    /\ task' = [task EXCEPT ![j] =
                   Return(t, "exhausted",
                          IF t.last_error THEN WrapperResult("ScrapingError") ELSE None)]
    /\ UNCHANGED <<cache, failed_urls>>

\* faulty variant: the failure is not counted
Terminal_NoCount(j, t) ==
    /\ failed_urls' = failed_urls \cup {Url(j)}
    /\ sem' = sem + 1
    /\ task' = [task EXCEPT ![j] =
                   Return(t, "exhausted",
                          IF t.last_error THEN WrapperResult("ScrapingError") ELSE None)]
    /\ UNCHANGED <<cache, stats>>

\* faulty variant: the slot is not given back when the job fails
Terminal_KeepsSlot(j, t) ==
    /\ failed_urls' = failed_urls \cup {Url(j)}
    /\ stats' = [stats EXCEPT !.failed_requests = @ + 1]
    /\ task' = [task EXCEPT ![j] =
                   Return(t, "exhausted",
                          IF t.last_error THEN WrapperResult("ScrapingError") ELSE None)]
    /\ UNCHANGED <<cache, sem>>

\* the code after the retry loop: blacklist, count, raise or return None; the
\* semaphore is released on the way out and the wrapper turns the error into a result
Terminal(j, t) ==
    /\ failed_urls' = failed_urls \cup {Url(j)}
    /\ stats' = [stats EXCEPT !.failed_requests = @ + 1]
    /\ sem' = sem + 1
    /\ task' = [task EXCEPT ![j] =
                   Return(t, "exhausted",
                          IF t.last_error THEN WrapperResult("ScrapingError") ELSE None)]
    /\ UNCHANGED cache

\* the retry loop moves on from attempt t.attempt: the next attempt starts, or the
\* loop is over
LoopNext(j, t) ==
    IF t.attempt + 1 < attempts
    THEN /\ task' = [task EXCEPT ![j] = [t EXCEPT
                        !.pc = "fetching", !.attempt = @ + 1, !.calls = @ + 1]]
         /\ UNCHANGED <<cache, failed_urls, stats, sem>>
    ELSE Terminal(j, t)

\* faulty variant: the record is built without waiting for the extraction
Stage_NoExtraction(outcome) == "fetching"

\* where in _perform_scrape an outcome arises: while the page is fetched
\* (page.goto, the status and title checks, page.content), or while the data
\* is extracted from it and the record is built
Stage(outcome) == IF outcome \in {"ok", "validation"} THEN "extracting" ELSE "fetching"

\* the page has been fetched: _extract_product_data starts
PageLoaded(j) ==
    /\ phase = "gather"
    /\ InChunk(j)
    /\ task[j].pc = "fetching"
    /\ task' = [task EXCEPT ![j].pc = "extracting"]
    /\ UNCHANGED <<max_concurrent_requests, browser, context, launched, closed, session, call, cleanup_log, wall, cache, failed_urls, stats, sem, task_logs, phase,
                   jobs, chunk, results, batches>>

\* faulty variant: a success is counted on the first attempt only
AttemptEndsWith_CountsFirstOnly(j, outcome, record) ==
    /\ phase = "gather"
    /\ InChunk(j)
    /\ task[j].pc = Stage(outcome)
    /\ LET t == [task[j] EXCEPT !.last_outcome = outcome]
       IN  IF outcome = "ok"
           THEN /\ cache' = (Key(j) :> CacheEntry(record, ttl_seconds)) @@ cache
                /\ stats' = [stats EXCEPT !.successful_requests =
                                            IF t.attempt = 0 THEN @ + 1 ELSE @]
                /\ sem' = sem + 1
                /\ task' = [task EXCEPT ![j] =
                               Return(t, "scraped", record)]
                /\ UNCHANGED failed_urls
           ELSE IF ErrorContextSuppresses(ExceptionOf(outcome))
                THEN \* the with block ends normally and the loop goes on at once
                     LoopNext(j, t)
                ELSE \* except Exception as e
                     IF t.attempt < retry_attempts
                     THEN /\ task' = [task EXCEPT ![j] = [t EXCEPT
                                         !.last_error = TRUE, !.pc = "backoff",
                                         !.sleep = BackoffDelay(t.attempt)]]
                          /\ UNCHANGED <<cache, failed_urls, stats, sem>>
                     ELSE LoopNext(j, [t EXCEPT !.last_error = TRUE])
    /\ UNCHANGED <<max_concurrent_requests, browser, context, launched, closed, session, call, cleanup_log, wall, task_logs, phase, jobs, chunk, results, batches>>

\* faulty variant: a record is cached only if its key has no entry yet
AttemptEndsWith_FirstWriteWins(j, outcome, record) ==
    /\ phase = "gather"
    /\ InChunk(j)
    /\ task[j].pc = Stage(outcome)
    /\ LET t == [task[j] EXCEPT !.last_outcome = outcome]
       IN  IF outcome = "ok"
           THEN /\ cache' = cache @@ (Key(j) :> CacheEntry(record, ttl_seconds))
                /\ stats' = [stats EXCEPT !.successful_requests = @ + 1]
                /\ sem' = sem + 1
                /\ task' = [task EXCEPT ![j] =
                               Return(t, "scraped", record)]
                /\ UNCHANGED failed_urls
           ELSE IF ErrorContextSuppresses(ExceptionOf(outcome))
                THEN \* the with block ends normally and the loop goes on at once
                     LoopNext(j, t)
                ELSE \* except Exception as e
                     IF t.attempt < retry_attempts
                     THEN /\ task' = [task EXCEPT ![j] = [t EXCEPT
                                         !.last_error = TRUE, !.pc = "backoff",
                                         !.sleep = BackoffDelay(t.attempt)]]
                          /\ UNCHANGED <<cache, failed_urls, stats, sem>>
                     ELSE LoopNext(j, [t EXCEPT !.last_error = TRUE])
    /\ UNCHANGED <<max_concurrent_requests, browser, context, launched, closed, session, call, cleanup_log, wall, task_logs, phase, jobs, chunk, results, batches>>

\* one call of _perform_scrape returns or raises
AttemptEndsWith(j, outcome, record) ==
    /\ phase = "gather"
    /\ InChunk(j)
    /\ task[j].pc = Stage(outcome)
    /\ LET t == [task[j] EXCEPT !.last_outcome = outcome]
       IN  IF outcome = "ok"
           THEN /\ cache' = (Key(j) :> CacheEntry(record, ttl_seconds)) @@ cache
                /\ stats' = [stats EXCEPT !.successful_requests = @ + 1]
                /\ sem' = sem + 1
                /\ task' = [task EXCEPT ![j] =
                               Return(t, "scraped", record)]
                /\ UNCHANGED failed_urls
           ELSE IF ErrorContextSuppresses(ExceptionOf(outcome))
                THEN \* the with block ends normally and the loop goes on at once
                     LoopNext(j, t)
                ELSE \* except Exception as e
                     IF t.attempt < retry_attempts
                     THEN /\ task' = [task EXCEPT ![j] = [t EXCEPT
                                         !.last_error = TRUE, !.pc = "backoff",
                                         !.sleep = BackoffDelay(t.attempt)]]
                          /\ UNCHANGED <<cache, failed_urls, stats, sem>>
                     ELSE LoopNext(j, [t EXCEPT !.last_error = TRUE])
    /\ UNCHANGED <<max_concurrent_requests, browser, context, launched, closed, session, call, cleanup_log, wall, task_logs, phase, jobs, chunk, results, batches>>

\* one pass of the retry loop, of which only the outcome and the record's
\* product_id are looked at
AttemptEnds(j, outcome) == AttemptEndsWith(j, outcome, ScrapedProductData(Id(j)))

\* one pass of the retry loop on a page that loads: the prices are extracted
\* from it and the record is built and validated
Extracted(j, page_prices) ==
    LET price_info == extract_price_info_sync(page_prices)
        candidate  == PricedProductData(Id(j), price_info)
    IN  IF Validates(candidate)
        THEN AttemptEndsWith(j, "ok", Validated(candidate))
        ELSE AttemptEndsWith(j, "validation", candidate)

\* the four sub-extractors of _extract_product_data, in the order of its tasks
Extractors == {"price", "stock", "description", "images"}

\* a sub-extractor's task: not finished, finished with the value it returns, or
\* finished with the exception it raises (which gather hands back as its result)
Unfinished == [state |-> "running", value |-> 0]

Returned(value) == [state |-> "returned", value |-> value]

Raised == [state |-> "raised", value |-> 0]

\* price_info = {}: every price_info.get(...) is None
NoPriceInfo == [original_price |-> NoPrice, sale_price |-> NoPrice, discount_percentage |-> NoPrice]

\* what _extract_product_data puts in place of a sub-extractor's exception
DefaultOf(extractor) ==
    CASE extractor = "price" -> NoPriceInfo
      [] extractor = "stock" -> Absent
      [] extractor = "description" -> Absent
      [] extractor = "images" -> <<>>

\* faulty variant: a sub-extractor's exception puts the defaults in place of
\* every sub-extractor's result
Gathered_AllOrNothing(sub, extractor) ==
    IF \E e \in Extractors : sub[e].state = "raised"
    THEN DefaultOf(extractor)
    ELSE sub[extractor].value

\* the result of a sub-extractor after 'Handle exceptions from parallel
\* extraction'
Gathered(sub, extractor) ==
    IF sub[extractor].state = "raised" THEN DefaultOf(extractor) ELSE sub[extractor].value

\* images[:10]
FirstImages(images) == SubSeq(images, 1, Min(Len(images), ImagesLimit))

\* the arguments ScrapedProductData is called with in _extract_product_data,
\* from the results of the four sub-extractors
MergedProductData(product_id, sub) ==
    [kind |-> "record", product_id |-> product_id,
     original_price |-> Gathered(sub, "price").original_price,
     sale_price |-> Gathered(sub, "price").sale_price,
     discount_percentage |-> Gathered(sub, "price").discount_percentage,
     stock_quantity |-> Gathered(sub, "stock"),
     detailed_description |-> Gathered(sub, "description"),
     additional_images |-> FirstImages(Gathered(sub, "images"))]

\* the construction of the merged record raises no ValidationError: the prices
\* validate, stock_quantity is None or a NonNegativeInt, detailed_description
\* is None or of at most 5000 characters and every image is an HttpUrl
ValidatesMerged(record) ==
    /\ Validates(record)
    /\ record.stock_quantity.present => record.stock_quantity.value >= 0
    /\ record.detailed_description.present =>
          record.detailed_description.value <= MaxDescription
    /\ \A i \in 1..Len(record.additional_images) :
          record.additional_images[i].form = "absolute"

\* the page is loaded: _extract_product_data starts its four sub-extractors
StartExtraction(j) ==
    /\ phase = "gather"
    /\ InChunk(j)
    /\ task[j].pc = "fetching"
    /\ task' = [task EXCEPT ![j].pc = "extracting"]
    /\ call' = [fn |-> "_extract_product_data", done |-> FALSE, job |-> j,
                sub |-> [e \in Extractors |-> Unfinished]]
    /\ UNCHANGED <<max_concurrent_requests, browser, context, launched, closed, session, cleanup_log, wall, cache, failed_urls, stats, sem,
                   task_logs, phase, jobs, chunk, results, batches>>

\* what a sub-extractor can return, over the pages
ReturnsOf(extractor) ==
    CASE extractor = "price" ->
            {extract_price_info_sync(page_prices) : page_prices \in SUBSET PagePrices}
      [] extractor = "stock" -> {extract_stock_info_sync(page) : page \in StockPages}
      [] extractor = "description" ->
            {extract_description_sync(page) : page \in DescriptionPages}
      [] extractor = "images" ->
            {extract_images_sync(img_elements) : img_elements \in ImgLists}

\* faulty variant: a sub-extractor that raises ends the ones still running
SubExtractorEnds_CancelsOthers(extractor, result) ==
    /\ call.fn = "_extract_product_data"
    /\ call.sub[extractor].state = "running"
    /\ call' = [call EXCEPT !.sub = [e \in Extractors |->
                   IF e = extractor THEN result
                   ELSE IF result.state = "raised" /\ call.sub[e].state = "running"
                        THEN Raised
                        ELSE call.sub[e]]]
    /\ UNCHANGED <<max_concurrent_requests, browser, context, launched, closed, session, cleanup_log, wall, cache, failed_urls, stats, sem,
                   task_logs, phase, jobs, chunk, results, task, batches>>

\* a sub-extractor's task finishes: it returns its value or raises
SubExtractorEnds(extractor, result) ==
    /\ call.fn = "_extract_product_data"
    /\ call.sub[extractor].state = "running"
    /\ call' = [call EXCEPT !.sub[extractor] = result]
    /\ UNCHANGED <<max_concurrent_requests, browser, context, launched, closed, session, cleanup_log, wall, cache, failed_urls, stats, sem,
                   task_logs, phase, jobs, chunk, results, task, batches>>

\* asyncio.gather(*tasks, return_exceptions=True) returns
AllFinished(sub) == \A e \in Extractors : sub[e].state # "running"

\* gather has returned: the record is built from the four results and
\* validated, and the pass of the retry loop ends
Merge(j) ==
    /\ call.fn = "_extract_product_data"
    /\ call.job = j
    /\ task[j].pc = "extracting"
    /\ AllFinished(call.sub)
    /\ LET candidate == MergedProductData(Id(j), call.sub)
       IN  IF ValidatesMerged(candidate)
           THEN AttemptEndsWith(j, "ok", Validated(candidate))
           ELSE AttemptEndsWith(j, "validation", candidate)

\* what page.goto returns and the page then shows: no response at all, or a
\* response with its HTTP status and a page whose title does or does not hold
\* one of '404', 'not found', 'página no encontrada', 'error'
Responses ==
    [present : {TRUE}, status : {200, MinErrorStatus - 1, MinErrorStatus, 404, 500},
     error_title : BOOLEAN]
        \cup {[present |-> FALSE, status |-> 0, error_title |-> FALSE]}

\* faulty variant: a status 404 is taken for a page that is not found
FetchOutcome_NotFound404(response) ==
    IF response.present /\ response.status = 404 THEN "not_found"
    ELSE IF ~response.present \/ response.status >= MinErrorStatus THEN "http_error"
    ELSE IF response.error_title THEN "not_found"
    ELSE "loaded"

\* what _perform_scrape makes of the response: NetworkError ("http_error"),
\* ScrapingError ("not_found"), or it goes on to the extraction ("loaded")
FetchOutcome(response) ==
    IF ~response.present \/ response.status >= MinErrorStatus THEN "http_error"
    ELSE IF response.error_title THEN "not_found"
    ELSE "loaded"

\* page.goto has returned the response
Fetched(j, response) ==
    IF FetchOutcome(response) = "loaded"
    THEN PageLoaded(j)
    ELSE AttemptEnds(j, FetchOutcome(response))

\* a call of fn with the argument input, not yet made
Calling(fn, input) == [fn |-> fn, done |-> FALSE, input |-> input]

\* the call of fn returns output
Returns(fn, output) ==
    /\ call.fn = fn
    /\ ~call.done
    /\ call' = [fn |-> fn, done |-> TRUE, input |-> call.input, output |-> output]
    /\ UNCHANGED <<max_concurrent_requests, browser, context, launched, closed, session, cleanup_log, wall, cache, failed_urls, stats, sem,
                   task_logs, phase, jobs, chunk, results, task, batches>>

\* _extract_price_info_sync(soup) returns
ExtractPriceInfo ==
    /\ call.fn = "_extract_price_info_sync"
    /\ Returns("_extract_price_info_sync", extract_price_info_sync(TokenSet(call.input)))

\* _extract_stock_info_sync(soup) returns
ExtractStockInfo ==
    /\ call.fn = "_extract_stock_info_sync"
    /\ Returns("_extract_stock_info_sync", extract_stock_info_sync(call.input))

\* _extract_images_sync(soup) returns
ExtractImages ==
    /\ call.fn = "_extract_images_sync"
    /\ Returns("_extract_images_sync", extract_images_sync(call.input))

\* models.ScrapedProductData(...) returns or raises
ConstructValidated ==
    /\ call.fn = "models.ScrapedProductData"
    /\ Returns("models.ScrapedProductData", ValidatedProductData(call.input))

\* product_scraper.ScrapedProductData(...) returns
ConstructDataclass ==
    /\ call.fn = "product_scraper.ScrapedProductData"
    /\ Returns("product_scraper.ScrapedProductData", post_init(call.input))

\* format_price(price, platform) returns
FormatPrice ==
    /\ call.fn = "format_price"
    /\ Returns("format_price", format_price(call.input.price, call.input.platform))

\* job j is in a call of _perform_scrape that has not entered _browser_session
NewCall(j) ==
    /\ phase = "gather"
    /\ InChunk(j)
    /\ task[j].pc = "fetching"
    /\ j \in DOMAIN session => (session[j].pc = "exited" /\ session[j].call < task[j].calls)

\* job j's call of _perform_scrape is at pc in _browser_session
InSession(j, pc) ==
    /\ phase = "gather"
    /\ j \in DOMAIN session
    /\ session[j].call = task[j].calls
    /\ session[j].pc = pc

\* the session goes on; nothing else changes
SessionStep(j, s) ==
    /\ session' = (j :> s) @@ session
    /\ UNCHANGED <<max_concurrent_requests, wall, cache, failed_urls, stats, sem, task_logs, phase,
                   jobs, chunk, results, task, batches, cleanup_log, call>>

\* async with self._browser_session(): 'if not self.browser' is looked at; with
\* no browser the task goes on to start playwright and launch one, otherwise
\* it is yielded self.browser at once
EnterSession(j) ==
    /\ NewCall(j)
    /\ SessionStep(j, [call |-> task[j].calls, owner |-> browser = NoBrowser,
                       pc |-> IF browser = NoBrowser THEN "launching" ELSE "yielded",
                       browser |-> browser, page |-> NoBrowser, outcome |-> "none"])
    /\ UNCHANGED <<browser, context, launched, closed>>

\* self.browser = await playwright.chromium.launch(...)
Launch(j) ==
    /\ InSession(j, "launching")
    /\ launched' = launched + 1
    /\ browser' = launched + 1
    /\ SessionStep(j, [session[j] EXCEPT !.pc = "launched", !.browser = launched + 1])
    /\ UNCHANGED <<context, closed>>

\* self.context = await self.browser.new_context(...), on the browser the
\* task has just launched; yield self.browser
NewContext(j) ==
    /\ InSession(j, "launched")
    /\ context' = session[j].browser
    /\ SessionStep(j, [session[j] EXCEPT !.pc = "yielded", !.browser = browser])
    /\ UNCHANGED <<browser, launched, closed>>

\* _create_optimized_page: ScrapingError without a context, playwright's error
\* when the context is closed, a page of self.context otherwise
CreatePage(j) ==
    /\ InSession(j, "yielded")
    /\ SessionStep(j,
          IF context = NoBrowser
          THEN [session[j] EXCEPT !.pc = "raising", !.outcome = "not_initialized"]
          ELSE IF ContextObject(context) \in closed
               THEN [session[j] EXCEPT !.pc = "raising", !.outcome = "closed"]
               ELSE [session[j] EXCEPT !.pc = "page", !.page = context])
    /\ UNCHANGED <<browser, context, launched, closed>>

\* page.goto, page.title, page.content: playwright's error when the page's
\* context has been closed; otherwise the content is read, or the deadline of
\* page.goto passes
Navigate(j) ==
    /\ InSession(j, "page")
    /\ IF ContextObject(session[j].page) \in closed
       THEN SessionStep(j, [session[j] EXCEPT !.pc = "raising", !.outcome = "closed"])
       ELSE \/ SessionStep(j, [session[j] EXCEPT !.pc = "read"])
            \/ SessionStep(j, [session[j] EXCEPT !.pc = "raising", !.outcome = "timeout"])
    /\ UNCHANGED <<browser, context, launched, closed>>

\* the content is read: _extract_product_data starts, within the session
SessionPageLoaded(j) ==
    /\ InSession(j, "read")
    /\ task[j].pc = "fetching"
    /\ task' = [task EXCEPT ![j].pc = "extracting"]
    /\ UNCHANGED <<max_concurrent_requests, browser, context, launched, closed, session, call, cleanup_log, wall, cache,
                   failed_urls, stats, sem, task_logs, phase, jobs, chunk, results, batches>>

\* what the finally clause of _browser_session closes: self.context and
\* self.browser as they are now, and with a Browser its context
ClosedAtExit ==
    (IF context # NoBrowser THEN {ContextObject(context)} ELSE {})
        \cup (IF browser # NoBrowser
              THEN {BrowserObject(browser), ContextObject(browser)}
              ELSE {})

\* the body of 'async with self._browser_session()' is left, with the record
\* or with the exception: the task that launched the browser closes
\* self.context and self.browser, which stay as they are; a task that was
\* yielded the browser of another closes nothing
ExitSession(j) ==
    /\ \/ InSession(j, "raising")
       \/ InSession(j, "read") /\ task[j].pc = "extracting"
    /\ closed' = IF session[j].owner THEN closed \cup ClosedAtExit ELSE closed
    /\ SessionStep(j, [session[j] EXCEPT
          !.pc = "exited",
          !.outcome = IF session[j].pc = "read" THEN "ok" ELSE @])
    /\ UNCHANGED <<browser, context, launched>>

\* the call of _perform_scrape is over: the retry loop takes its outcome
SessionAttemptEnds(j) ==
    /\ InSession(j, "exited")
    /\ AttemptEnds(j, session[j].outcome)

\* asyncio.sleep(delay) is over: the loop goes on
Wake(j) ==
    /\ phase = "gather"
    /\ InChunk(j)
    /\ task[j].pc = "backoff"
    /\ task[j].sleep = 0
    /\ LoopNext(j, task[j])
    /\ UNCHANGED <<max_concurrent_requests, browser, context, launched, closed, session, call, cleanup_log, wall, task_logs, phase, jobs, chunk, results, batches>>

\* the loop over batch_results: results[product_id] = result for every truthy,
\* non-exception result, in job order
RECURSIVE Aggregate(_, _, _)
Aggregate(res, j, last) ==
    IF j > last THEN res
    ELSE Aggregate(IF task[j].result.kind = "record"
                   THEN (Id(j) :> task[j].result) @@ res
                   ELSE res,
                   j + 1, last)

\* faulty variant: a failed job of the chunk ends the chunk loop
CollectChunk_AbortOnFailure ==
    /\ phase = "gather"
    /\ \A j \in 1..Len(jobs) : InChunk(j) => task[j].pc = "done"
    /\ results' = Aggregate(results, chunk + 1, Min(chunk + batch_size, Len(jobs)))
    /\ chunk' = IF \E j \in 1..Len(jobs) : InChunk(j) /\ task[j].result.kind # "record"
                THEN Len(jobs)
                ELSE chunk + batch_size
    /\ phase' = "loop"
    /\ UNCHANGED <<max_concurrent_requests, browser, context, launched, closed, session, call, cleanup_log, wall, cache, failed_urls, stats, sem, task_logs, jobs, task, batches>>

\* gather returns: every task of the chunk is done
CollectChunk ==
    /\ phase = "gather"
    /\ \A j \in 1..Len(jobs) : InChunk(j) => task[j].pc = "done"
    /\ results' = Aggregate(results, chunk + 1, Min(chunk + batch_size, Len(jobs)))
    /\ chunk' = chunk + batch_size
    /\ phase' = "loop"
    /\ UNCHANGED <<max_concurrent_requests, browser, context, launched, closed, session, call, cleanup_log, wall, cache, failed_urls, stats, sem, task_logs, jobs, task, batches>>

\* the chunk loop is over: return results
FinishBatch ==
    /\ phase = "loop"
    /\ chunk >= Len(jobs)
    /\ phase' = "returned"
    /\ UNCHANGED <<max_concurrent_requests, browser, context, launched, closed, session, call, cleanup_log, wall, cache, failed_urls, stats, sem, task_logs, jobs, chunk, results, task, batches>>

\* a call of scrape_product_page made on its own, not by a batch run
DirectCall == [fn |-> "scrape_product_page", done |-> FALSE]

\* scrape_product_page(product_url, product_id) is called on the engine outside
\* a batch run: its coroutine is created; self.stats is left as it is
StartDirect(job) ==
    /\ phase \in {"idle", "returned"}
    /\ call = NoCall
    /\ batches < MaxRuns
    /\ batches' = batches + 1
    /\ call' = DirectCall
    /\ jobs' = <<job>>
    /\ task' = <<NewTask>>
    /\ results' = <<>>
    /\ chunk' = 0
    /\ phase' = "loop"
    /\ UNCHANGED <<max_concurrent_requests, browser, context, launched, closed, session, cleanup_log, wall, cache, failed_urls, stats, sem, task_logs>>

\* the direct call returns its record or None to its caller
DirectReturns ==
    /\ call = DirectCall
    /\ phase = "gather"
    /\ task[1].pc = "done"
    /\ call' = NoCall
    /\ phase' = "returned"
    /\ UNCHANGED <<max_concurrent_requests, browser, context, launched, closed, session, cleanup_log, wall, cache, failed_urls, stats, sem, task_logs, jobs, chunk, results, task, batches>>

\* a second passes on the event loop's clock
Tick ==
    /\ task_logs' = [i \in 1..Len(task_logs) |-> Min(task_logs[i] + 1, period + 1)]
    /\ task' = [j \in 1..Len(jobs) |->
                  IF task[j].sleep > 0 THEN [task[j] EXCEPT !.sleep = @ - 1] ELSE task[j]]
    /\ UNCHANGED <<max_concurrent_requests, browser, context, launched, closed, session, call, cleanup_log, wall, cache, failed_urls, stats, sem, phase, jobs, chunk, results, batches>>

\* faulty variant: clear_cache empties the cache
ClearCache_All ==
    LET expired_keys == DOMAIN cache
    IN  /\ cache' = [key \in DOMAIN cache \ expired_keys |-> cache[key]]
        /\ cleanup_log' = [expired_entries |-> Cardinality(expired_keys),
                           remaining_entries |-> Cardinality(DOMAIN cache')]
        /\ UNCHANGED <<max_concurrent_requests, browser, context, launched, closed, session, call, wall, failed_urls, stats, sem, task_logs, phase,
                       jobs, chunk, results, task, batches>>

\* clear_cache: the expired entries are deleted and their number logged
ClearCache ==
    LET expired_keys == {key \in DOMAIN cache : is_expired(cache[key])}
    IN  /\ cache' = [key \in DOMAIN cache \ expired_keys |-> cache[key]]
        /\ cleanup_log' = [expired_entries |-> Cardinality(expired_keys),
                           remaining_entries |-> Cardinality(DOMAIN cache')]
        /\ UNCHANGED <<max_concurrent_requests, browser, context, launched, closed, session, call, wall, failed_urls, stats, sem, task_logs, phase,
                       jobs, chunk, results, task, batches>>

\* the scraper's user clears the cache between two batch runs
Sweep == phase \in {"idle", "returned"} /\ ClearCache

\* the instants of the wall clock the model looks at: around each multiple of
\* the cache's time to live, a second before it, at it and a second after it
Instants ==
    {t \in {n * ttl_seconds + d : n \in 0..MaxWallSteps, d \in {-1, 0, 1}} : t >= 0}

\* the wall clock moves on to a later instant
Later ==
    /\ \E t \in Instants : t > wall /\ wall' = t
    /\ UNCHANGED <<max_concurrent_requests, browser, context, launched, closed, session, call, cleanup_log, cache, failed_urls, stats, sem, task_logs, phase,
                   jobs, chunk, results, task, batches>>

Next ==
    \/ \E product_urls \in JobLists : FirstBatch(product_urls)
    \/ StartChunk
    \/ \E j \in 1..Len(jobs) : AcquireSemaphore(j)
    \/ \E j \in 1..Len(jobs) : AcquireThrottler(j)
    \/ \E j \in 1..Len(jobs) : PageLoaded(j)
    \/ \E j \in 1..Len(jobs) : \E outcome \in Outcomes : AttemptEnds(j, outcome)
    \/ \E j \in 1..Len(jobs) : Wake(j)
    \/ CollectChunk
    \/ FinishBatch
    \/ Tick

\* the first batch run of a scraper, on a job list of up to MaxJobs jobs, within
\* the cache's time to live
Spec == Init /\ [][Next]_vars

\* what the event loop and the deadlines grant: the orchestrator goes on when
\* it can, a waiting task is resumed when its slot, its token or its wake-up
\* time is there, every call of _perform_scrape goes on and ends (by its result
\* or by its timeout), and time passes
Fairness ==
    /\ WF_vars(StartChunk)
    /\ WF_vars(CollectChunk)
    /\ WF_vars(FinishBatch)
    /\ WF_vars(Tick)
    /\ \A j \in 1..(MaxFairJobs + 1) :
          /\ WF_vars(AcquireSemaphore(j))
          /\ WF_vars(AcquireThrottler(j))
          /\ WF_vars(PageLoaded(j) \/ \E outcome \in Outcomes : AttemptEnds(j, outcome))
          /\ WF_vars(Wake(j))

NextFair ==
    \/ \E product_urls \in FairJobLists : FirstBatch(product_urls)
    \/ StartChunk
    \/ \E j \in 1..Len(jobs) : AcquireSemaphore(j)
    \/ \E j \in 1..Len(jobs) : AcquireThrottler(j)
    \/ \E j \in 1..Len(jobs) : PageLoaded(j)
    \/ \E j \in 1..Len(jobs) : \E outcome \in Outcomes : AttemptEnds(j, outcome)
    \/ \E j \in 1..Len(jobs) : Wake(j)
    \/ CollectChunk
    \/ FinishBatch
    \/ Tick

\* the first batch run of a scraper, on jobs in one chunk or in two,
\* scheduled fairly
SpecFair == Init /\ [][NextFair]_vars /\ Fairness

NextRuns ==
    \/ \E product_urls \in SingleJobLists : StartBatch(product_urls)
    \/ StartChunk
    \/ \E j \in 1..Len(jobs) : AcquireSemaphore(j)
    \/ \E j \in 1..Len(jobs) : AcquireThrottler(j)
    \/ \E j \in 1..Len(jobs) : PageLoaded(j)
    \/ \E j \in 1..Len(jobs) : \E outcome \in Outcomes : AttemptEnds(j, outcome)
    \/ \E j \in 1..Len(jobs) : Wake(j)
    \/ CollectChunk
    \/ FinishBatch
    \/ Tick
    \/ Later

\* a series of batch runs of one job each, over which cache entries expire
SpecRuns == Init /\ [][NextRuns]_vars

NextSweeps ==
    \/ \E product_urls \in SingleJobLists : StartBatch(product_urls)
    \/ StartChunk
    \/ \E j \in 1..Len(jobs) : AcquireSemaphore(j)
    \/ \E j \in 1..Len(jobs) : AcquireThrottler(j)
    \/ \E j \in 1..Len(jobs) : PageLoaded(j)
    \/ \E j \in 1..Len(jobs) : AttemptEnds(j, "ok")
    \/ CollectChunk
    \/ FinishBatch
    \/ Tick
    \/ Later
    \/ Sweep

\* a series of batch runs of one job each, every scrape of which yields a
\* record, over which cache entries expire and the cache is cleared between
\* the runs
SpecSweeps == Init /\ [][NextSweeps]_vars

NextBlacklist ==
    \/ \E product_urls \in SameUrlJobLists : StartBatch(product_urls)
    \/ StartChunk
    \/ \E j \in 1..Len(jobs) : AcquireSemaphore(j)
    \/ \E j \in 1..Len(jobs) : AcquireThrottler(j)
    \/ \E j \in 1..Len(jobs) : PageLoaded(j)
    \/ \E j \in 1..Len(jobs) : \E outcome \in {"ok", "not_found"} : AttemptEnds(j, outcome)
    \/ CollectChunk
    \/ FinishBatch
    \/ Tick
    \/ Later
    \/ Sweep

\* a series of batch runs, of one job or of two jobs for one locator, in which
\* a page is there or is not, with the cache cleared between the runs
SpecBlacklist == Init /\ [][NextBlacklist]_vars

NextRace ==
    \/ \E product_urls \in SameKeyJobLists : FirstBatch(product_urls)
    \/ StartChunk
    \/ \E j \in 1..Len(jobs) : AcquireSemaphore(j)
    \/ \E j \in 1..Len(jobs) : AcquireThrottler(j)
    \/ \E j \in 1..Len(jobs) : PageLoaded(j)
    \/ \E j \in 1..Len(jobs) : \E page_prices \in SUBSET PagePrices : Extracted(j, page_prices)
    \/ CollectChunk
    \/ FinishBatch
    \/ Tick

\* the first batch run on a job list that holds one job twice, every page of
\* which loads and shows some of the prices of PagePrices
SpecRace == Init /\ [][NextRace]_vars

NextChunks ==
    \/ FirstBatch(PoolList)
    \/ batches > 0 /\ StartBatch(LongList)
    \/ StartChunk
    \/ \E j \in 1..Len(jobs) : AcquireSemaphore(j)
    \/ \E j \in 1..Len(jobs) : AcquireThrottler(j)
    \/ \E j \in 1..Len(jobs) : PageLoaded(j)
    \/ \E j \in 1..Len(jobs) : \E outcome \in {"ok", "not_found"} : AttemptEnds(j, outcome)
    \/ CollectChunk
    \/ FinishBatch
    \/ Tick

\* a batch run on the jobs of PoolList, in which a page is there or is not,
\* and then batch runs on LongList, whose jobs the first run has left cached
\* or blacklisted, with the fewest or the most slots
SpecChunks == InitChunks /\ [][NextChunks]_vars

NextBrowser ==
    \/ \E product_urls \in BrowserJobLists : FirstBatch(product_urls)
    \/ StartChunk
    \/ \E j \in 1..Len(jobs) : AcquireSemaphore(j)
    \/ \E j \in 1..Len(jobs) : AcquireThrottler(j)
    \/ \E j \in 1..Len(jobs) : EnterSession(j)
    \/ \E j \in 1..Len(jobs) : Launch(j)
    \/ \E j \in 1..Len(jobs) : NewContext(j)
    \/ \E j \in 1..Len(jobs) : CreatePage(j)
    \/ \E j \in 1..Len(jobs) : Navigate(j)
    \/ \E j \in 1..Len(jobs) : SessionPageLoaded(j)
    \/ \E j \in 1..Len(jobs) : ExitSession(j)
    \/ \E j \in 1..Len(jobs) : SessionAttemptEnds(j)
    \/ \E j \in 1..Len(jobs) : Wake(j)
    \/ CollectChunk
    \/ FinishBatch
    \/ Tick

\* the first batch run of a scraper with up to MaxSlots slots, in which every
\* call of _perform_scrape is followed through _browser_session
SpecBrowser == InitSlots /\ [][NextBrowser]_vars

NextDirect ==
    \/ \E product_urls \in SingleJobLists : call = NoCall /\ StartBatch(product_urls)
    \/ \E job \in JobPool : StartDirect(job)
    \/ StartChunk
    \/ \E j \in 1..Len(jobs) : AcquireSemaphore(j)
    \/ \E j \in 1..Len(jobs) : AcquireThrottler(j)
    \/ \E j \in 1..Len(jobs) : PageLoaded(j)
    \/ \E j \in 1..Len(jobs) : \E outcome \in Outcomes : AttemptEnds(j, outcome)
    \/ \E j \in 1..Len(jobs) : Wake(j)
    \/ call = NoCall /\ CollectChunk
    \/ call = NoCall /\ FinishBatch
    \/ DirectReturns
    \/ Tick

\* the public operations of one engine, one after the other: batch runs of one
\* job and direct calls of scrape_product_page
SpecDirect == Init /\ [][NextDirect]_vars

NextSlots ==
    \/ FirstBatch(PoolList)
    \/ StartChunk
    \/ \E j \in 1..Len(jobs) : AcquireSemaphore(j)
    \/ \E j \in 1..Len(jobs) : AcquireThrottler(j)
    \/ \E j \in 1..Len(jobs) : PageLoaded(j)
    \/ \E j \in 1..Len(jobs) : \E outcome \in Outcomes : AttemptEnds(j, outcome)
    \/ \E j \in 1..Len(jobs) : Wake(j)
    \/ CollectChunk
    \/ FinishBatch
    \/ Tick

\* the first batch run, on the jobs of PoolList, of a scraper configured with
\* one slot or more
SpecSlots == InitSlots /\ [][NextSlots]_vars

NextPrices ==
    \/ FirstBatch(PoolList)
    \/ StartChunk
    \/ \E j \in 1..Len(jobs) : AcquireSemaphore(j)
    \/ \E j \in 1..Len(jobs) : AcquireThrottler(j)
    \/ \E j \in 1..Len(jobs) : PageLoaded(j)
    \/ \E j \in 1..Len(jobs) : \E page_prices \in SUBSET PagePrices : Extracted(j, page_prices)
    \/ CollectChunk
    \/ FinishBatch
    \/ Tick

\* the first batch run, on the jobs of PoolList, every page of which loads and
\* shows some of the prices of PagePrices
SpecPrices == Init /\ [][NextPrices]_vars

NextExtract ==
    \/ \E product_urls \in SingleJobLists : FirstBatch(product_urls)
    \/ StartChunk
    \/ \E j \in 1..Len(jobs) : AcquireSemaphore(j)
    \/ \E j \in 1..Len(jobs) : AcquireThrottler(j)
    \/ \E j \in 1..Len(jobs) : StartExtraction(j)
    \/ \E extractor \in Extractors : \E value \in ReturnsOf(extractor) :
          SubExtractorEnds(extractor, Returned(value))
    \/ \E extractor \in Extractors : SubExtractorEnds(extractor, Raised)
    \/ \E j \in 1..Len(jobs) : Merge(j)
    \/ CollectChunk
    \/ FinishBatch

\* the first batch run, of one job, every page of which loads; the four
\* sub-extractors of each extraction finish in any order, each with any value
\* it can return or with an exception
SpecExtract == Init /\ [][NextExtract]_vars

NextFetch ==
    \/ \E product_urls \in SingleJobLists : FirstBatch(product_urls)
    \/ StartChunk
    \/ \E j \in 1..Len(jobs) : AcquireSemaphore(j)
    \/ \E j \in 1..Len(jobs) : AcquireThrottler(j)
    \/ \E j \in 1..Len(jobs) : \E response \in Responses : Fetched(j, response)
    \/ \E j \in 1..Len(jobs) : AttemptEnds(j, "timeout")
    \/ \E j \in 1..Len(jobs) : \E outcome \in {"ok", "validation"} : AttemptEnds(j, outcome)
    \/ \E j \in 1..Len(jobs) : Wake(j)
    \/ CollectChunk
    \/ FinishBatch
    \/ Tick

\* the first batch run, of one job, each fetch of which gets any response, or
\* none within the timeout
SpecFetch == Init /\ [][NextFetch]_vars

\* one call of one of the functions, with any of its arguments
InitFunctions ==
    /\ Scraper(MinConcurrent)
    /\ \/ \E price_matches \in PriceMatches :
             call = Calling("_extract_price_info_sync", price_matches)
       \/ \E page \in StockPages :
             call = Calling("_extract_stock_info_sync", page)
       \/ \E img_elements \in ImgLists :
             call = Calling("_extract_images_sync", img_elements)
       \/ \E args \in ConstructorArgs :
             \/ call = Calling("models.ScrapedProductData", args)
             \/ call = Calling("product_scraper.ScrapedProductData", args)
       \/ \E price \in PriceTexts, platform \in Platforms :
             call = Calling("format_price", [price |-> price, platform |-> platform])

NextFunctions ==
    \/ ExtractPriceInfo
    \/ ExtractStockInfo
    \/ ExtractImages
    \/ ConstructValidated
    \/ ConstructDataclass
    \/ FormatPrice

\* the functions that work on one page or one value, each called once
SpecFunctions == InitFunctions /\ [][NextFunctions]_vars

(***************************************************************************)
(* Properties.                                                             *)
(***************************************************************************)
Jobs == 1..Len(jobs)

\* the jobs inside "async with self._semaphore": waiting for the throttler,
\* fetching or extracting, or asleep between two attempts
Holders == {j \in Jobs : task[j].pc \in {"wait_throttle", "fetching", "extracting", "backoff"}}

\* the outcomes that are network failures: an HTTP status >= 400 and a
\* transport error or timeout
NetworkFailures == {"http_error", "timeout"}

\* job j's task makes a step of its retry loop that ends an attempt with a failure
\* of one of the given kinds
Fails(j, kinds) == \E outcome \in kinds : AttemptEnds(j, outcome)

\* C1: at every instant of a batch run, for any job list and interleaving, at
\* most max_concurrent_requests jobs hold a concurrency slot (are inside the
\* section the semaphore guards: fetching or waiting between two attempts).
C1_ConcurrencyBound ==
    /\ Cardinality(Holders) <= max_concurrent_requests
    /\ sem >= 0

\* a scraper of more than one slot: every slot is held, one by a job asleep
\* between two attempts, while another job of the chunk waits for a slot
C1_Witness ==
    /\ max_concurrent_requests > MinConcurrent
    /\ Cardinality(Holders) = max_concurrent_requests
    /\ \E j \in Holders : task[j].pc = "backoff"
    /\ \E j \in Jobs : task[j].pc = "wait_sem"

\* C2: a job whose every attempt fails with a network failure is attempted
\* exactly retry_attempts + 1 times: a network failure of attempt n (from 0)
\* with n < retry_attempts is followed by attempt n + 1 (at once or after a
\* sleep), and one of attempt retry_attempts ends the job after
\* retry_attempts + 1 calls, with no record and its locator in failed_urls;
\* a job that has ended makes no further call.
C2_RetryExhaustion ==
    [][\A j \in Jobs :
          /\ Fails(j, NetworkFailures) =>
                /\ task[j].calls = task[j].attempt + 1
                /\ IF task[j].attempt < retry_attempts
                   THEN /\ task'[j].pc \in {"fetching", "backoff"}
                        /\ failed_urls' = failed_urls
                   ELSE /\ task'[j].pc = "done"
                        /\ task'[j].calls = retry_attempts + 1
                        /\ task'[j].result = None
                        /\ Url(j) \in failed_urls'
          /\ (task[j].pc = "backoff" /\ task'[j].pc # "backoff" /\ jobs' = jobs) =>
                /\ task'[j].pc = "fetching"
                /\ task'[j].attempt = task[j].attempt + 1
                /\ task'[j].calls = task[j].calls + 1
          /\ (task[j].pc = "done" /\ jobs' = jobs /\ batches' = batches) =>
                task'[j] = task[j]
    ]_vars

\* a job has ended after retry_attempts + 1 calls, without a record, and its
\* locator is blacklisted
C2_Witness ==
    \E j \in Jobs :
        /\ task[j].pc = "done"
        /\ task[j].how = "exhausted"
        /\ task[j].calls = retry_attempts + 1
        /\ task[j].result = None
        /\ Url(j) \in failed_urls

C4_BackoffBeforeRetry ==
    [][\A j \in Jobs :
          /\ (Fails(j, Outcomes \ {"ok"}) /\ task'[j].pc # "done") =>
                /\ task'[j].pc = "backoff"
                /\ task'[j].sleep = BackoffDelay(task[j].attempt)
          /\ (jobs' = jobs /\ task[j].calls >= 1 /\ task'[j].calls = task[j].calls + 1) =>
                /\ task[j].pc = "backoff"
                /\ task[j].sleep = 0
    ]_vars

Starts(j) == task[j].pc = "new" /\ jobs' = jobs /\ task'[j].pc # "new"

\* the cache holds an entry for job j's key whose expiry time has not passed
HasUnexpiredEntry(j) == Key(j) \in DOMAIN cache /\ wall <= cache[Key(j)].expires_at

\* C6: a job whose locator is in the blacklist when it is processed, and that
\* has no unexpired cache entry, ends in its first step with the failure outcome
\* (None) and not a record: it makes no call of _perform_scrape and takes no
\* slot of the semaphore (nor of the throttler).
C6_BlacklistedSkipped ==
    [][\A j \in Jobs :
          (Starts(j) /\ Url(j) \in failed_urls /\ ~HasUnexpiredEntry(j)) =>
              /\ task'[j].pc = "done"
              /\ task'[j].result = None
              /\ task'[j].calls = 0
              /\ sem' = sem
              /\ task_logs' = task_logs
              /\ cache' = cache
    ]_vars

\* a job was skipped for its blacklisted locator although the cache holds an
\* entry for its key, an expired one
C6_Witness ==
    \E j \in Jobs :
        /\ task[j].pc = "done"
        /\ task[j].how = "skipped"
        /\ task[j].calls = 0
        /\ task[j].result = None
        /\ Url(j) \in failed_urls
        /\ Key(j) \in DOMAIN cache
        /\ is_expired(cache[Key(j)])

\* the jobs that ended without a record: attempts exhausted, or skipped
Exhausted == {j \in Jobs : task[j].pc = "done" /\ task[j].how = "exhausted"}

Skipped == {j \in Jobs : task[j].pc = "done" /\ task[j].how = "skipped"}

\* job j contributed nothing to results: its identifier is there only if
\* another job of the batch got a record for it
Omitted(j) ==
    Id(j) \in DOMAIN results =>
        \E k \in Jobs : k # j /\ Id(k) = Id(j) /\ task[k].result = results[Id(j)]

\* C7, as stated: when the batch returns, every job that ended in terminal
\* failure (attempts exhausted, or skipped for its blacklisted locator) is
\* omitted from results and counted in failed_requests.
C7_FailuresCounted ==
    phase = "returned" =>
        /\ \A j \in Exhausted \cup Skipped : Omitted(j)
        /\ stats.failed_requests = Cardinality(Exhausted \cup Skipped)

\* C7, amended: every job that exhausted its attempts is omitted from results
\* and counted in failed_requests; a job skipped for its blacklisted locator is
\* omitted from results too, but is not counted in failed_requests.
C7_ExhaustedCounted ==
    /\ stats.failed_requests = Cardinality(Exhausted)
    /\ phase = "returned" =>
          \A j \in Exhausted \cup Skipped : task[j].result = None /\ Omitted(j)

\* a batch has returned in which one job exhausted its attempts and a later one
\* was skipped: failed_requests counts the first only
C7_Witness ==
    /\ phase = "returned"
    /\ Exhausted # {}
    /\ Skipped # {}
    /\ stats.failed_requests = Cardinality(Exhausted)
    /\ stats.failed_requests < Cardinality(Exhausted \cup Skipped)

\* C8: every identifier in the results mapping maps to a record for that
\* identifier, obtained in this batch by a job with that identifier through a
\* successful extraction or a cache hit; an identifier all of whose jobs ended
\* in failure is not in results.
C8_ResultsOnlySuccesses ==
    /\ \A id \in DOMAIN results :
          /\ results[id].kind = "record"
          /\ results[id].product_id = id
          /\ \E j \in Jobs :
                /\ Id(j) = id
                /\ task[j].pc = "done"
                /\ task[j].how \in {"scraped", "hit"}
                /\ task[j].result = results[id]
    /\ \A j \in Jobs :
          (\A k \in Jobs : Id(k) = Id(j) => task[k].result.kind # "record") =>
              Id(j) \notin DOMAIN results

\* a batch has returned whose results hold an identifier got from the cache and
\* lack the identifier of a job that failed
C8_Witness ==
    /\ phase = "returned"
    /\ \E j \in Jobs : task[j].how = "hit" /\ Id(j) \in DOMAIN results
    /\ \E j \in Jobs : task[j].result = None /\ Id(j) \notin DOMAIN results

\* C9: a job that finds an unexpired cache entry for its key ends in its first
\* step with the cached record: cache_hits grows by one for each such job, and
\* the job takes no slot of the semaphore or the throttler, makes no call of
\* _perform_scrape and writes no cache entry; successful_requests and
\* failed_requests are unchanged.
C9_CacheHitFrame ==
    [][\A j \in Jobs :
          (Starts(j) /\ HasUnexpiredEntry(j)) =>
              /\ task'[j].pc = "done"
              /\ task'[j].result = cache[Key(j)].data
              /\ task'[j].calls = 0
              /\ stats'.cache_hits = stats.cache_hits
                    + Cardinality({k \in Jobs : Starts(k) /\ HasUnexpiredEntry(k)})
              /\ stats'.successful_requests = stats.successful_requests
              /\ stats'.failed_requests = stats.failed_requests
              /\ sem' = sem
              /\ task_logs' = task_logs
              /\ cache' = cache
    ]_vars

\* a job of a later chunk got the record an earlier job of the batch had cached,
\* without a call, and it is the one cache hit counted
C9_Witness ==
    \E j \in Jobs :
        /\ task[j].pc = "done"
        /\ task[j].how = "hit"
        /\ task[j].calls = 0
        /\ task[j].result = ScrapedProductData(Id(j))
        /\ stats.cache_hits = 1
        /\ stats.successful_requests = 1

\* C10: a failed job never keeps another job from being run to its own outcome,
\* and the batch returns whatever the failures: a job that waits for a slot
\* finds one free unless a job that is still running holds it; and when the
\* batch has returned, every job of every chunk has ended, with a record or
\* with None and never with an exception, each by its own cache entry or its
\* own attempts, or skipped because a job of the batch failed on its very
\* locator.
C10_BatchIsolation ==
    /\ (\E j \in Jobs : task[j].pc = "wait_sem") => (sem > 0 \/ Holders # {})
    /\ sem + Cardinality(Holders) = max_concurrent_requests
    /\ phase = "returned" =>
          \A j \in Jobs :
              /\ task[j].pc = "done"
              /\ task[j].result.kind \in {"record", "none"}
              /\ task[j].how = "scraped" => task[j].calls \in 1..attempts
              /\ task[j].how = "exhausted" => task[j].calls = attempts
              /\ task[j].how = "skipped" => \E k \in Exhausted : Url(k) = Url(j)
              /\ task[j].how = "hit" => Key(j) \in DOMAIN cache

\* a batch has returned in which every job of the first chunk failed and a job
\* of the second chunk, on another locator, was scraped
C10_Witness ==
    /\ phase = "returned"
    /\ \A j \in 1..batch_size : j \in Exhausted
    /\ \E j \in Jobs : j > batch_size /\ task[j].how = "scraped"

\* C11: from the start of a batch run on a list of N jobs to its return and
\* after, total_requests is N: duplicate (locator, identifier) jobs count
\* separately, whatever the order in which they fetch, succeed or fail.
C11_TotalIsJobCount ==
    phase # "idle" => stats.total_requests = Len(jobs)

\* a batch has returned whose first two jobs are the same (locator, identifier)
\* pair, raced in one chunk, one scraped and the other failed; total_requests
\* counts both
C11_Witness ==
    /\ phase = "returned"
    /\ Len(jobs) >= 2
    /\ jobs[1] = jobs[2]
    /\ {task[1].how, task[2].how} = {"scraped", "exhausted"}
    /\ stats.total_requests = Len(jobs)

\* the admissions of the last period seconds: the throttler's log entries that
\* are not older than the period
RecentAdmissions == {i \in 1..Len(task_logs) : task_logs[i] <= period}

\* job j is admitted by the throttler and starts its first attempt
Admitted(j) == jobs' = jobs /\ task[j].calls = 0 /\ task'[j].calls = 1

\* C12: in any window of one period the throttler admits at most
\* max_concurrent_requests jobs, however long the admitted jobs run; and a job
\* starts its first attempt only in the step in which, holding a slot of the
\* semaphore, it is admitted by the throttler and logged.
C12_RateWindow ==
    [][/\ Cardinality(RecentAdmissions') <= max_concurrent_requests
       /\ \A j \in Jobs :
             Admitted(j) =>
                 /\ task[j].pc = "wait_throttle"
                 /\ j \in Holders
                 /\ sem < max_concurrent_requests
                 /\ Cardinality(RecentAdmissions) < max_concurrent_requests
                 /\ Len(task_logs') = Len(Flush(task_logs)) + 1
                 /\ task_logs'[Len(task_logs')] = 0
    ]_vars

\* a scraper of more than one slot whose window is full: a job that holds a
\* slot waits for the throttler although an admitted job has already finished
C12_Witness ==
    /\ max_concurrent_requests > MinConcurrent
    /\ Cardinality(RecentAdmissions) = max_concurrent_requests
    /\ \E j \in Jobs : task[j].pc = "wait_throttle"
    /\ \E j \in Jobs : task[j].pc = "done" /\ task[j].calls >= 1

\* the jobs asleep between two attempts, and those waiting for a slot
InBackoff == {j \in Jobs : task[j].pc = "backoff"}

PendingAdmission == {j \in Jobs : task[j].pc = "wait_sem"}

\* C13, as stated: the backoff delay blocks only the retrying job: while a job
\* is asleep in backoff, a job that waits for admission can take a slot (with
\* one slot and two jobs, the second can start while the first is in backoff).
C13_BackoffBlocksOnlyRetrier ==
    InBackoff # {} => \A k \in PendingAdmission : ENABLED AcquireSemaphore(k)

\* C13, amended: a job asleep in backoff keeps its slot: a job that waits for
\* admission can take a slot exactly when fewer than max_concurrent_requests
\* jobs are fetching, asleep in backoff or waiting for the throttler, so with
\* one slot the second job cannot start while the first is in backoff.
C13_BackoffKeepsSlot ==
    /\ InBackoff \subseteq Holders
    /\ \A k \in PendingAdmission :
          ENABLED AcquireSemaphore(k) <=> Cardinality(Holders) < max_concurrent_requests

\* a scraper of one slot: the first job is asleep in backoff and the second,
\* waiting for admission, cannot take the slot
C13_Witness ==
    /\ max_concurrent_requests = MinConcurrent
    /\ InBackoff # {}
    /\ \E k \in PendingAdmission : ~ENABLED AcquireSemaphore(k)

\* C14: the slot a job took is given back in the step in which its task ends,
\* by a record, by a failure after the last attempt or by the ScrapingError
\* raised after the loop, so that free slots and slot holders always add up to
\* max_concurrent_requests and all slots are free when the batch has returned;
\* the ending of a job leaves the throttler's log as it is.
C14_SlotReleased ==
    [][/\ sem' + Cardinality(Holders') = max_concurrent_requests
       /\ phase' = "returned" => (Holders' = {} /\ sem' = max_concurrent_requests)
       /\ \A j \in Holders :
             (jobs' = jobs /\ task'[j].pc = "done") =>
                 /\ sem' = sem + 1
                 /\ task_logs' = task_logs
    ]_vars

\* a batch has returned in which a job was scraped and another failed: every
\* slot is free, and their admissions are still in the throttler's log
C14_Witness ==
    /\ phase = "returned"
    /\ sem = max_concurrent_requests
    /\ \E j \in Jobs : task[j].how = "scraped"
    /\ \E j \in Jobs : task[j].how = "exhausted"
    /\ Len(task_logs) >= 2

\* C15: within a job, extraction starts only when the page of the attempt has
\* been fetched; the cache is written only by a job whose extraction has ended
\* with a record, and with that record; successful_requests grows only by one,
\* in a step after which the job's entry is in the cache; and results gets a
\* scraped job's record only when its entry is in the cache.
C15_FetchExtractCacheAggregate ==
    [][jobs' = jobs =>
        /\ \A j \in Jobs :
              (task[j].pc # "extracting" /\ task'[j].pc = "extracting") =>
                  task[j].pc = "fetching"
        /\ cache' # cache =>
              \E j \in Jobs :
                  /\ task[j].pc = "extracting"
                  /\ task'[j].pc = "done"
                  /\ task'[j].result.kind = "record"
                  /\ cache' = (Key(j) :> cache'[Key(j)]) @@ cache
                  /\ cache'[Key(j)].data = task'[j].result
        /\ stats'.successful_requests # stats.successful_requests =>
              /\ stats'.successful_requests = stats.successful_requests + 1
              /\ \E j \in Jobs :
                    /\ task[j].pc = "extracting"
                    /\ task'[j].how = "scraped"
                    /\ Key(j) \in DOMAIN cache'
                    /\ results' = results
        /\ results' # results =>
              \A j \in Jobs :
                  (InChunk(j) /\ task[j].how = "scraped") =>
                      /\ Key(j) \in DOMAIN cache
                      /\ cache[Key(j)].data = results'[Id(j)]
                      /\ stats.successful_requests >= 1
    ]_vars

\* a scraped job whose record is in the cache and counted, and not yet in
\* results: its chunk is still running
C15_Witness ==
    /\ phase = "gather"
    /\ \E j \in Jobs :
          /\ task[j].how = "scraped"
          /\ Key(j) \in DOMAIN cache
          /\ cache[Key(j)].data = task[j].result
          /\ stats.successful_requests >= 1
          /\ Id(j) \notin DOMAIN results

\* the unexpired cache entries that hold a record for job j's identifier
EntriesForId(j) ==
    {key \in DOMAIN cache : cache[key].data.product_id = Id(j) /\ wall <= cache[key].expires_at}

\* C16, as stated: cache entries are keyed by identifier: a job whose
\* identifier has an unexpired record in the cache gets it as a cache hit,
\* whatever locator the job carries.
C16_KeyedByIdentifier ==
    [][\A j \in Jobs :
          (Starts(j) /\ EntriesForId(j) # {}) =>
              /\ task'[j].how = "hit"
              /\ task'[j].result.product_id = Id(j)
    ]_vars

\* C16, amended: cache entries are keyed by identifier and locator together: a
\* job gets a cache hit exactly when the record stored for its identifier under
\* its own locator is unexpired; a record stored for the same identifier under
\* another locator is not returned to it.
C16_KeyedByIdentifierAndLocator ==
    [][\A j \in Jobs :
          Starts(j) =>
              /\ task'[j].how = "hit" <=> (Id(j) \o ":" \o Url(j)) \in EntriesForId(j)
              /\ task'[j].how = "hit" =>
                    /\ task'[j].result = cache[Id(j) \o ":" \o Url(j)].data
                    /\ task'[j].result.product_id = Id(j)
    ]_vars

\* a job has missed the cache and waits to fetch although the cache holds an
\* unexpired record for its identifier, stored under another locator
C16_Witness ==
    \E j \in Jobs :
        /\ task[j].pc = "wait_sem"
        /\ EntriesForId(j) # {}
        /\ Key(j) \notin DOMAIN cache

\* the jobs whose task starts in this step without an unexpired entry for their key
MissingStarts == {k \in Jobs : Starts(k) /\ ~HasUnexpiredEntry(k)}

\* C17: a record put in the cache under a key is what a lookup of the key
\* returns as long as no more than ttl_seconds have passed since the put; a
\* lookup later than that finds nothing and adds one to cache_misses; and a put
\* under a key replaces the entry the key had, with the new record and a new
\* expiry, and touches no other entry.
C17_CacheRoundTrip ==
    [][\A j \in Jobs :
          /\ (Starts(j) /\ Key(j) \in DOMAIN cache) =>
                LET entry == cache[Key(j)]
                IN  /\ entry.expires_at = entry.created_at + ttl_seconds
                    /\ wall <= entry.created_at + ttl_seconds =>
                          /\ task'[j].how = "hit"
                          /\ task'[j].result = entry.data
                    /\ wall > entry.created_at + ttl_seconds =>
                          /\ task'[j].how # "hit"
                          /\ task'[j].result.kind # "record"
                          /\ stats'.cache_misses =
                                stats.cache_misses + Cardinality(MissingStarts)
          /\ AttemptEnds(j, "ok") =>
                /\ DOMAIN cache' = DOMAIN cache \cup {Key(j)}
                /\ cache'[Key(j)] = [data |-> task'[j].result, created_at |-> wall,
                                     expires_at |-> wall + ttl_seconds]
                /\ \A key \in DOMAIN cache : key # Key(j) => cache'[key] = cache[key]
    ]_vars

\* a job has missed the cache on the expired entry of its key, the one miss
\* counted, and has extracted the record that will replace the entry
C17_Witness ==
    \E j \in Jobs :
        /\ task[j].pc = "extracting"
        /\ Key(j) \in DOMAIN cache
        /\ is_expired(cache[Key(j)])
        /\ stats.cache_misses = 1

\* the entries of the cache whose expiry time has passed
ExpiredKeys == {key \in DOMAIN cache : wall > cache[key].expires_at}

\* C18: the lookup that opens a job's task leaves the cache as it is; when the
\* job's key has no entry, or an expired one, the lookup yields no record and
\* adds one to cache_misses; and an expired entry is in the cache, unchanged,
\* after every step that is neither clear_cache nor the write of a new record
\* under its key.
C18_LookupLeavesCache ==
    [][/\ \A j \in Jobs :
             Starts(j) =>
                /\ cache' = cache
                /\ ~HasUnexpiredEntry(j) =>
                      /\ task'[j].how # "hit"
                      /\ task'[j].result.kind # "record"
                      /\ stats'.cache_misses = stats.cache_misses + Cardinality(MissingStarts)
       /\ \A key \in ExpiredKeys :
             \/ key \in DOMAIN cache' /\ cache'[key] = cache[key]
             \/ Sweep
             \/ \E j \in Jobs : Key(j) = key /\ AttemptEnds(j, "ok")
    ]_vars

\* a job has looked up its key, whose entry had expired, and missed; the
\* entry is still in the cache while the job waits for or holds its slot
C18_Witness ==
    \E j \in Jobs :
        /\ task[j].pc \in {"wait_sem", "wait_throttle", "fetching"}
        /\ Key(j) \in ExpiredKeys
        /\ stats.cache_misses = 1

\* C19: clear_cache deletes the entries that are expired when it is called and
\* no other: every unexpired entry is in the cache afterwards, unchanged, and
\* the number it logs as expired_entries is the number of entries it deleted.
C19_SweepRemovesExpired ==
    [][Sweep =>
          /\ DOMAIN cache' = DOMAIN cache \ ExpiredKeys
          /\ \A key \in DOMAIN cache' : cache'[key] = cache[key]
          /\ cleanup_log'.expired_entries = Cardinality(DOMAIN cache) - Cardinality(DOMAIN cache')
          /\ cleanup_log'.remaining_entries = Cardinality(DOMAIN cache')
    ]_vars

\* a sweep has deleted one entry and left another, unexpired one
C19_Witness ==
    /\ cleanup_log # None
    /\ cleanup_log.expired_entries = 1
    /\ cleanup_log.remaining_entries = 1
    /\ Cardinality(DOMAIN cache) = 1
    /\ ExpiredKeys = {}

\* the candidate records: any product of PoolList with any two prices of
\* PagePrices, each present or not
Candidates ==
    {PricedProductData(PoolList[i][2],
                       [original_price |-> o, sale_price |-> s, discount_percentage |-> NoPrice]) :
        i \in 1..Len(PoolList), o \in PagePrices \cup {NoPrice}, s \in PagePrices \cup {NoPrice}}

\* both prices of the record are present and the sale price is the larger
PricesInverted(record) ==
    /\ record.original_price # NoPrice
    /\ record.sale_price # NoPrice
    /\ record.sale_price > record.original_price

\* C20: no record in the cache has both prices present and a sale_price larger
\* than its original_price: every record a step writes to the cache has passed
\* the validation, and the validation rejects every candidate record whose
\* sale_price is larger than its original_price.
C20_CachedPricesConsistent ==
    [][/\ \A key \in DOMAIN cache' : ~PricesInverted(cache'[key].data)
       /\ \A key \in DOMAIN cache' :
             (key \notin DOMAIN cache \/ cache'[key] # cache[key]) =>
                Validates(cache'[key].data)
       /\ \A candidate \in Candidates :
             PricesInverted(candidate) => ~Validates(candidate)
    ]_vars

\* the cache holds a record with both prices, extracted from a page that showed
\* two prices within the range
C20_Witness ==
    \E key \in DOMAIN cache :
        /\ cache[key].data.original_price = MaxPrice
        /\ cache[key].data.sale_price = MinPrice
        /\ cache[key].data.discount_percentage = 99

\* the extraction of job j ends in this step
ExtractionEnds(j) == task[j].pc = "extracting" /\ task'[j].pc # "extracting"

\* exactly one sub-extractor of the extraction has raised, the others returned
OneRaised ==
    /\ call.fn = "_extract_product_data"
    /\ \A e \in Extractors : call.sub[e].state # "running"
    /\ Cardinality({e \in Extractors : call.sub[e].state = "raised"}) = 1

\* the value the record is to carry for a sub-extractor: what it returned, or
\* nothing if it raised
Carried(e) ==
    IF call.sub[e].state = "returned" THEN call.sub[e].value
    ELSE IF e = "price" THEN NoPriceInfo
    ELSE IF e = "images" THEN <<>>
    ELSE Absent

\* the record r carries, field by field, what the sub-extractors leave it
CarriesAll(r) ==
    /\ r.original_price = Carried("price").original_price
    /\ r.sale_price = Carried("price").sale_price
    /\ r.discount_percentage = Carried("price").discount_percentage
    /\ r.stock_quantity = Carried("stock")
    /\ r.detailed_description = Carried("description")
    /\ r.additional_images = Carried("images")

\* the values the sub-extractors leave make a record that the record type
\* accepts: no negative stock, no description of more than MaxDescription
\* characters
Acceptable ==
    /\ Carried("stock").present => Carried("stock").value >= 0
    /\ Carried("description").present => Carried("description").value <= MaxDescription

\* the job ends in this step with a record, scraped in the attempt under way
EndsScraped(j) ==
    /\ task'[j].pc = "done"
    /\ task'[j].how = "scraped"
    /\ task'[j].result.kind = "record"
    /\ task'[j].calls = task[j].calls
    /\ stats'.failed_requests = stats.failed_requests
    /\ failed_urls' = failed_urls

\* C21 as stated: when one sub-extractor has raised and the others have
\* returned, the extraction returns a record that carries nothing for the one
\* that raised and the returned value for every other, and the job ends with it,
\* without another attempt and without being counted as failed.
C21_PartialExtractionTolerated ==
    [][\A j \in Jobs :
          (ExtractionEnds(j) /\ OneRaised) =>
              /\ EndsScraped(j)
              /\ CarriesAll(task'[j].result)
    ]_vars

\* C21 as amended: the same whenever the values that the other sub-extractors
\* returned make a record the record type accepts; when they do not (a negative
\* stock, a description too long), the construction of the record raises and
\* the job ends without a record or goes on to another attempt.
C21_PartialExtractionValidated ==
    [][\A j \in Jobs :
          (ExtractionEnds(j) /\ OneRaised) =>
              IF Acceptable
              THEN /\ EndsScraped(j)
                   /\ CarriesAll(task'[j].result)
              ELSE /\ task'[j].result.kind # "record"
                   /\ cache' = cache
                   /\ task'[j].pc = "fetching" \/ Url(j) \in failed_urls'
    ]_vars

\* a job has its record from an extraction whose image extractor raised and
\* whose other sub-extractors returned prices, a stock and a description
C21_Witness ==
    \E j \in Jobs :
        /\ task[j].how = "scraped"
        /\ call.fn = "_extract_product_data"
        /\ call.job = j
        /\ call.sub["images"].state = "raised"
        /\ task[j].result.additional_images = <<>>
        /\ task[j].result.stock_quantity.present
        /\ task[j].result.detailed_description.present
        /\ task[j].result.original_price # NoPrice

\* C28: the four sub-extractors of an extraction are started in one step; as
\* long as one of them runs the extraction does not end; and the step in which
\* one of them returns or raises leaves every other one as it is, running or
\* finished with its result.
C28_FanOutFanIn ==
    [][/\ \A j \in Jobs :
             (task[j].pc = "fetching" /\ task'[j].pc = "extracting") =>
                 \A e \in Extractors : call'.sub[e].state = "running"
       /\ \A j \in Jobs :
             (ExtractionEnds(j) /\ call.fn = "_extract_product_data") =>
                 \A e \in Extractors : call.sub[e].state \in {"returned", "raised"}
       /\ call.fn = "_extract_product_data" =>
             \A e \in Extractors :
                 (call.sub[e].state = "running" /\ call'.sub[e].state # "running") =>
                     /\ call'.sub[e].state \in {"returned", "raised"}
                     /\ \A other \in Extractors \ {e} : call'.sub[other] = call.sub[other]
    ]_vars

\* a job has its record from an extraction in which the price extractor raised
\* and the three others returned
C28_Witness ==
    \E j \in Jobs :
        /\ task[j].how = "scraped"
        /\ call.fn = "_extract_product_data"
        /\ call.job = j
        /\ call.sub["price"].state = "raised"
        /\ \A e \in Extractors \ {"price"} : call.sub[e].state = "returned"

\* the responses with the status of a resource that does not exist
NotFoundResponses == {response \in Responses : response.present /\ response.status = 404}

\* the responses with another status that is not a success
ErrorResponses ==
    {response \in Responses :
        response.present /\ response.status >= MinErrorStatus /\ response.status # 404}

\* job j goes on to another attempt: at once, or after the backoff sleep
Retried(j) ==
    /\ task'[j].pc \in {"fetching", "backoff"}
    /\ task'[j].result = Pending
    /\ Url(j) \notin failed_urls'

InBand(price_matches) == {p \in TokenSet(price_matches) : MinPrice <= p /\ p <= MaxPrice}

\* C24: price extraction takes, of the matched prices within the range
\* MinPrice..MaxPrice, the largest as original_price and the largest of the rest
\* as sale_price, whatever other prices there are and however often each
\* occurs; when only one price is within the range it is the sale_price and
\* there is no original_price, and when none is there is neither.
C24_PriceExtraction ==
    (call.fn = "_extract_price_info_sync" /\ call.done) =>
        LET valid == InBand(call.input)
            o == call.output.original_price
            s == call.output.sale_price
        IN  /\ Cardinality(valid) >= 2 =>
                  /\ o \in valid /\ s \in valid
                  /\ s < o
                  /\ \A p \in valid : p <= o /\ (p < o => p <= s)
            /\ Cardinality(valid) = 1 => (o = NoPrice /\ valid = {s})
            /\ valid = {} => (o = NoPrice /\ s = NoPrice)

\* three prices within the range were matched, one of them twice and one
\* outside the range, and the lowest of the three was discarded
C24_Witness ==
    /\ call.fn = "_extract_price_info_sync"
    /\ call.done
    /\ Cardinality(InBand(call.input)) = 3
    /\ call.output.original_price = MaxPrice
    /\ call.output.sale_price = MinPrice + 400

\* a stock number within the accepted bound
WithinStockBound(n) == MinStock <= n /\ n <= MaxStock

NonProductAssets == {"thumb", "icon", "logo"}

\* C26 as stated: the list image extraction returns has at most ImagesLimit
\* entries, each an absolute URL that is no icon, logo or thumbnail, and no URL
\* is in it twice, two src values that convert to the same absolute URL being
\* the same URL.
C26_ImagesCleaned ==
    (call.fn = "_extract_images_sync" /\ call.done) =>
        LET images == call.output
        IN  /\ Len(images) <= ImagesLimit
            /\ \A i \in 1..Len(images) :
                  /\ images[i].form = "absolute"
                  /\ images[i].asset \notin NonProductAssets
            /\ \A i, k \in 1..Len(images) : images[i] = images[k] => i = k

\* the record types: the validated model, and the one test_feeds.py imports
RecordTypes == {"models.ScrapedProductData", "product_scraper.ScrapedProductData"}

\* C23 as stated: a record of either type constructed with both prices and no
\* discount_percentage has the discount_percentage round((original_price -
\* sale_price) / original_price * 100), 15 for the prices of
\* test_price_calculation.
C23_DiscountDerived ==
    (/\ call.fn \in RecordTypes
     /\ call.done
     /\ call.input.original_price # NoPrice
     /\ call.input.sale_price # NoPrice
     /\ call.input.discount_percentage = NoPrice
     /\ call.output.kind = "record") =>
        /\ call.output.discount_percentage =
              RoundPercent(call.input.original_price - call.input.sale_price,
                           call.input.original_price)
        /\ (/\ call.input.original_price = TestOriginalPrice
            /\ call.input.sale_price = TestSalePrice) =>
              call.output.discount_percentage = 15

\* the price text is of the form 'N.NN MXN'
FeedPriceForm(price) == PriceMatch(price) /\ Len(price.fraction) = 2 /\ price.gap = " "

\* the form '$N,NN' of a price
DollarCommaForm(price) ==
    "$" \o ToString(price.whole) \o "," \o DigitsText(price.fraction)

\* C27 as stated: format_price gives a price 'N.NN MXN' back as 'N.NN MXN'
\* for the platform google and as '$N,NN' for the platform facebook
\* ('628.58 MXN' and '$628,58' for '628.58 MXN'), and gives a price that does
\* not match the input form back unchanged.
C27_PricePerPlatform ==
    (call.fn = "format_price" /\ call.done) =>
        LET price == call.input.price
            platform == call.input.platform
        IN  /\ (FeedPriceForm(price) /\ platform = "google") =>
                  call.output = Render(price)
            /\ (FeedPriceForm(price) /\ platform = "facebook") =>
                  call.output = DollarCommaForm(price)
            /\ (price = PriceText("", 628, <<5, 8>>, " ", "MXN") /\ platform = "facebook") =>
                  call.output = "$628,58"
            /\ ~PriceMatch(price) => call.output = Render(price)

\* the attempt of job j that ends is not its first
LaterAttempt(j) == task[j].attempt > 0 /\ task[j].attempt <= retry_attempts

\* C29: a job whose attempt k (0 < k <= retry_attempts) succeeds, every earlier
\* attempt having failed, returns its record and caches it, adds one to
\* successful_requests and nothing to failed_requests, leaves failed_urls as
\* it is and makes no further call of _perform_scrape.
C29_SuccessAfterRetries ==
    [][\A j \in 1..Len(jobs) :
          /\ (AttemptEnds(j, "ok") /\ LaterAttempt(j)) =>
                /\ task'[j].pc = "done"
                /\ task'[j].how = "scraped"
                /\ task'[j].result = ScrapedProductData(Id(j))
                /\ Key(j) \in DOMAIN cache'
                /\ cache'[Key(j)].data = ScrapedProductData(Id(j))
                /\ stats'.successful_requests = stats.successful_requests + 1
                /\ stats'.failed_requests = stats.failed_requests
                /\ failed_urls' = failed_urls
                /\ task'[j].calls = task[j].calls
          /\ (j \in DOMAIN task /\ task[j].pc = "done" /\ task[j].how = "scraped"
                /\ j \in DOMAIN task') =>
                task'[j].calls = task[j].calls /\ task'[j].how = "scraped"]_vars

\* a job has succeeded on its last attempt, after retry_attempts failures, and
\* nothing was counted as failed or blacklisted
C29_Witness ==
    \E j \in 1..Len(jobs) :
        /\ j \in DOMAIN task
        /\ task[j].pc = "done"
        /\ task[j].how = "scraped"
        /\ task[j].calls = retry_attempts + 1
        /\ stats.successful_requests = 1
        /\ stats.failed_requests = 0
        /\ failed_urls = {}

\* job j's retry loop ends without a record in this step
ReachesTerminal(j) ==
    /\ task[j].pc # "done"
    /\ j \in DOMAIN task'
    /\ task'[j].pc = "done"
    /\ task'[j].how = "exhausted"

\* C30: failed_urls only grows: no step takes a locator out of it, be it a
\* success for the locator, a clearing of the cache or the start of a batch
\* run, and a step that adds a locator is one in which a job for that locator
\* ends its retry loop without a record.
C30_BlacklistOnlyGrows ==
    [][/\ failed_urls \subseteq failed_urls'
       /\ \A url \in failed_urls' \ failed_urls :
             \E j \in 1..Len(jobs) : Url(j) = url /\ ReachesTerminal(j)]_vars

\* in a second batch run, after the cache was cleared, a job has got its
\* record for a locator that is on the blacklist, and the locator is still
\* there
C30_Witness ==
    /\ batches >= 2
    /\ cleanup_log # None
    /\ \E j \in 1..Len(jobs) :
          /\ j \in DOMAIN task
          /\ task[j].how = "scraped"
          /\ Url(j) \in failed_urls

\* jobs j and k of the chunk that starts have the same cache key, for which
\* the cache has no entry, and a locator that is not blacklisted
RaceOn(j, k) ==
    /\ InChunk(j) /\ InChunk(k) /\ j # k
    /\ Key(j) = Key(k)
    /\ Key(j) \notin DOMAIN cache
    /\ Url(j) \notin failed_urls

\* job j gets its record in this step
Scrapes(j) ==
    /\ task[j].pc = "extracting"
    /\ task'[j].pc = "done"
    /\ task'[j].how = "scraped"

\* C31: two jobs of one chunk with the same cache key, for which the cache
\* has no entry, both pass the cache check as misses and both go on to scrape;
\* each job that gets a record returns its own record and writes it to the
\* cache over what is there, so that the cache holds the record of the job
\* that ended last.
C31_NoSingleFlight ==
    [][/\ StartChunk =>
             \A j, k \in 1..Len(jobs) :
                 RaceOn(j, k) =>
                     /\ task'[j].pc = "wait_sem" /\ task'[k].pc = "wait_sem"
                     /\ stats'.cache_misses >= stats.cache_misses + 2
       /\ \A j \in 1..Len(jobs) :
             Scrapes(j) =>
                 /\ cache'[Key(j)].data = task'[j].result
                 /\ task'[j].calls >= 1
                 /\ \A k \in 1..Len(jobs) \ {j} : task'[k] = task[k]]_vars

\* both jobs of a chunk with the same cache key got a record of their own,
\* the two records differ and the cache holds the second job's
C31_Witness ==
    /\ Len(jobs) = 2
    /\ DOMAIN task = 1..2
    /\ Key(1) = Key(2)
    /\ task[1].how = "scraped" /\ task[2].how = "scraped"
    /\ task[1].calls = 1 /\ task[2].calls = 1
    /\ task[1].result # task[2].result
    /\ cache[Key(1)].data = task[2].result
    /\ stats.cache_misses = 2

\* the size of a chunk: twice the slots, 20 with the most slots
ExpectedChunkSize ==
    IF max_concurrent_requests = MaxConcurrent
    THEN BatchSizeCap
    ELSE BatchSizeFactor * max_concurrent_requests

\* the chunk of job j, counted from 0, in job-list order
ChunkOf(j) == (j - 1) \div ExpectedChunkSize

\* the task of job j has started: it has made its cache check
Started(j) == j \in DOMAIN task /\ task[j].pc # "new"

\* C32: the jobs run in chunks of min(2 * max_concurrent_requests, 20)
\* consecutive jobs of the list: a job has started only if every job of the
\* chunks before its own has returned, and the jobs of one chunk start
\* together, so that they are under way at the same time.
C32_ChunksInOrder ==
    \A j \in 1..Len(jobs) :
        Started(j) =>
            \A k \in 1..Len(jobs) :
                /\ ChunkOf(k) < ChunkOf(j) => (Started(k) /\ task[k].pc = "done")
                /\ ChunkOf(k) = ChunkOf(j) => Started(k)

\* with one slot the first two jobs are under way, one scraping and one
\* waiting for the slot, and the third, of the next chunk, has not started
C32_Witness ==
    /\ max_concurrent_requests = MinConcurrent
    /\ Len(jobs) = 3
    /\ DOMAIN task = 1..3
    /\ task[1].pc \in {"fetching", "extracting"}
    /\ task[2].pc = "wait_sem"
    /\ task[3].pc = "new"

\* how a task can have returned: with the cached record, with the record it
\* scraped, without one after its last attempt, or without one because its
\* locator was blacklisted before
Ways == {"hit", "scraped", "exhausted", "skipped"}

\* the batch run has returned and every job's task has returned in one way
BatchReturned ==
    /\ phase = "returned"
    /\ DOMAIN task = 1..Len(jobs)
    /\ \A j \in 1..Len(jobs) : task[j].pc = "done" /\ task[j].how \in Ways

\* C33: under fair scheduling, with every call of _perform_scrape ending, a
\* batch run that has started returns, every job having returned with its
\* cached record, with a scraped record or without one; no task stays
\* waiting for the semaphore or the throttler.
C33_BatchTerminates == (phase \in {"loop", "gather"}) ~> BatchReturned

\* a run of three jobs has returned in which one job got its record and
\* another made every attempt and failed
C33_Witness ==
    /\ BatchReturned
    /\ Len(jobs) = Len(PoolList)
    /\ \E j, k \in 1..Len(jobs) :
          /\ task[j].how = "scraped"
          /\ task[k].how = "exhausted"
          /\ task[k].calls = retry_attempts + 1

\* the jobs of the batch that returned their cached record
Hits == {j \in 1..Len(jobs) : j \in DOMAIN task /\ task[j].how = "hit"}

\* C34: when a batch run returns, cache_hits + cache_misses = total_requests,
\* the number of jobs: each job made one cache check and was counted as a hit
\* if it returned the cached record and as a miss otherwise.
C34_HitsPlusMisses ==
    phase = "returned" =>
        /\ stats.total_requests = Len(jobs)
        /\ stats.cache_hits = Cardinality(Hits)
        /\ stats.cache_misses = Len(jobs) - Cardinality(Hits)
        /\ stats.cache_hits + stats.cache_misses = stats.total_requests

\* a batch of three jobs has returned in which one job was a hit and another
\* made every attempt and failed
C34_Witness ==
    /\ phase = "returned"
    /\ Len(jobs) = 3
    /\ stats.cache_hits = 1
    /\ stats.cache_misses = 2
    /\ \E j, k \in 1..Len(jobs) : task[j].how = "hit" /\ task[k].how = "exhausted"

\* the jobs of the batch that scraped their record
Scraped == {j \in Jobs : task[j].pc = "done" /\ task[j].how = "scraped"}

\* C35 as stated: when a batch run returns, cache_hits + successful_requests
\* + failed_requests = total_requests, whatever the outcomes, jobs skipped
\* for their blacklisted locator included.
C35_EveryJobCounted ==
    phase = "returned" =>
        stats.cache_hits + stats.successful_requests + stats.failed_requests
            = stats.total_requests

\* C35: when a batch run returns, every job is counted at most once among
\* cache_hits, successful_requests and failed_requests, and the jobs counted
\* in none of them are those skipped for their blacklisted locator: the three
\* counters add up to total_requests less the number of skipped jobs.
C35_CountedButSkipped ==
    phase = "returned" =>
        /\ stats.cache_hits = Cardinality(Hits)
        /\ stats.successful_requests = Cardinality(Scraped)
        /\ stats.failed_requests = Cardinality(Exhausted)
        /\ stats.cache_hits + stats.successful_requests + stats.failed_requests
               + Cardinality(Skipped) = stats.total_requests

\* a batch has returned in which one job scraped its record and a later one
\* was skipped: the three counters add up to less than total_requests
C35_Witness ==
    /\ phase = "returned"
    /\ Scraped # {}
    /\ Skipped # {}
    /\ stats.cache_hits + stats.successful_requests + stats.failed_requests
           < stats.total_requests

\* the jobs whose call of _perform_scrape is inside 'async with
\* self._browser_session()', about to create its page or with its page
UsingBrowser ==
    {j \in DOMAIN session :
        session[j].call = task[j].calls /\ session[j].pc \in {"yielded", "page"}}

\* C36 as stated: whenever a call of _perform_scrape is using the browser
\* session, the browser it was yielded, the context it creates its page in
\* and the context of its page are open.
C36_SessionOpenWhileUsed ==
    \A j \in UsingBrowser :
        /\ BrowserObject(session[j].browser) \notin closed
        /\ session[j].pc = "yielded" =>
              (context # NoBrowser /\ ContextObject(context) \notin closed)
        /\ session[j].pc = "page" => ContextObject(session[j].page) \notin closed

(***************************************************************************)
(* C37: the blacklist check and the attempts that follow it                *)
(***************************************************************************)
\* a call of _perform_scrape by job j starts in this step: the first attempt
\* once the throttler admits the task, or a later pass of the retry loop
AttemptStarts(j) ==
    /\ j \in DOMAIN task
    /\ j \in DOMAIN task'
    /\ task'[j].calls > task[j].calls

\* the jobs of the chunk being gathered that blacklisted job j's locator after
\* the first steps of the chunk's tasks were run
BlacklistedSinceCheck(j) ==
    {k \in 1..Len(jobs) : /\ k # j
                          /\ InChunk(k)
                          /\ Url(k) = Url(j)
                          /\ task[k].how = "exhausted"}

\* C37 as stated: no attempt is started for a locator that is in the
\* blacklist at the moment the attempt starts.
C37_NoAttemptOnBlacklisted ==
    [][\A j \in 1..Len(jobs) : AttemptStarts(j) => Url(j) \notin failed_urls]_vars

\* C37, amended: the blacklist is looked at once, in the task's first step,
\* and an attempt is started only by a job that passed that check; when an
\* attempt starts for a locator that is in the blacklist, the locator was
\* added after the check, by another job of the same chunk.
C37_CheckedOnceBeforeSlot ==
    [][\A j \in 1..Len(jobs) :
          (AttemptStarts(j) /\ Url(j) \in failed_urls) =>
             BlacklistedSinceCheck(j) # {}]_vars

\* a job fetches its locator, which another job of its chunk has blacklisted
\* while it waited
C37_Witness ==
    \E j \in 1..Len(jobs) :
        /\ task[j].pc = "fetching"
        /\ Url(j) \in failed_urls
        /\ BlacklistedSinceCheck(j) # {}

(***************************************************************************)
(* C38: get_performance_stats                                              *)
(***************************************************************************)
Max(a, b) == IF a >= b THEN a ELSE b

\* (part / max(whole, 1)) * 100, kept as the exact fraction num / den
Percentage(part, whole) == [num |-> part * 100, den |-> Max(whole, 1)]

\* get_performance_stats(): the counters and the two rates
get_performance_stats ==
    [total_requests |-> stats.total_requests,
     successful_requests |-> stats.successful_requests,
     failed_requests |-> stats.failed_requests,
     success_rate |-> Percentage(stats.successful_requests, stats.total_requests),
     cache_hit_rate |-> Percentage(stats.cache_hits,
                                   stats.cache_hits + stats.cache_misses),
     total_cache_entries |-> Cardinality(DOMAIN cache),
     failed_urls_count |-> Cardinality(failed_urls)]

\* 0 <= rate <= 100
InPercentRange(rate) == 0 <= rate.num /\ rate.num <= 100 * rate.den

\* C38 as stated: whatever public operations were run on the engine, the
\* success_rate and the cache_hit_rate that get_performance_stats reports lie
\* in [0, 100], and successful_requests never exceeds total_requests.
C38_RatesWithinPercent ==
    /\ InPercentRange(get_performance_stats.success_rate)
    /\ InPercentRange(get_performance_stats.cache_hit_rate)
    /\ get_performance_stats.successful_requests <= get_performance_stats.total_requests

(***************************************************************************)
(* C39: what a new batch run resets and what it keeps                      *)
(***************************************************************************)
\* this step is a call of scrape_multiple_products
BatchStarts == batches' = batches + 1

\* this step runs the first steps of the tasks of a chunk
ChunkStarts == phase = "loop" /\ phase' = "gather"

\* C39: a new batch run sets every counter to zero and total_requests to the
\* number of its jobs, and leaves the cache and the blacklist as they are; so
\* in the run a job with an unexpired cache entry is a hit, and a job without
\* one whose locator is blacklisted is skipped.
C39_BatchResetsOnlyStats ==
    [][/\ BatchStarts =>
             /\ stats' = [ScrapingStats EXCEPT !.total_requests = Len(jobs')]
             /\ cache' = cache
             /\ failed_urls' = failed_urls
       /\ ChunkStarts =>
             \A j \in 1..Len(jobs) :
                 InChunk(j) =>
                    /\ CacheHit(j) =>
                          (task'[j].how = "hit" /\ task'[j].result = cache[Key(j)].data)
                    /\ (~CacheHit(j) /\ Url(j) \in failed_urls) =>
                          task'[j].how = "skipped"]_vars

\* a third run whose job is a hit on the entry the second run wrote, with the
\* locator the first run blacklisted still in the blacklist and the counters of
\* the earlier runs gone
C39_Witness ==
    /\ batches = 3
    /\ phase = "returned"
    /\ task[1].how = "hit"
    /\ failed_urls # {}
    /\ stats = [ScrapingStats EXCEPT !.total_requests = 1, !.cache_hits = 1]

====
